---------------------------- MODULE Spec2Model ----------------------------
(***************************************************************************)
(* Model of the opendb_mcp connector runtime: the connector contract       *)
(* (connectors/base.py), the dialect connectors (postgres, mysql, sqlite,  *)
(* hive), the Kerberos credential manager (services/kerberos.py) and the   *)
(* connector registry (connectors/__init__.py).                            *)
(*                                                                         *)
(* SQL text is a sequence of one-character strings, so that strip(),       *)
(* upper(), startswith() and the LIMIT wrapping are computed as the code   *)
(* computes them.  Time is counted in minutes.                             *)
(***************************************************************************)
EXTENDS Integers, Sequences, FiniteSets, TLC

VARIABLES
    \* ---- one dialect connector (BaseConnector and its subclasses) ----
    db_type,        \* which subclass the connector is
    readonly,       \* self._options.readonly
    opt_max_rows,   \* self._options.max_rows
    _is_connected,  \* self._is_connected
    handle,         \* self._pool / self._db / self._connection (0 is None)
    opened,         \* number of backend sessions created so far
    live,           \* backend sessions created and not closed
    res,            \* outcome of the call in progress, until the caller takes it
    \* ---- Kerberos credentials (KerberosAuth), by credential id ----
    now,            \* datetime.now(), in minutes
    _initialized,   \* KerberosAuth._initialized
    _ticket_expiry, \* KerberosAuth._ticket_expiry (NoExpiry is None)
    _refresh_task,  \* KerberosAuth._refresh_task (0 is None, else a task id)
    tasks,          \* the refresh_loop tasks created by _schedule_refresh
    ntasks,         \* number of tasks created so far
    pc,             \* where each caller's coroutine is suspended
    call,           \* each caller's call: what it found, what it did, how it ended
    destroyed,      \* a destroy of the credential has returned and no later call began
    last_failed,    \* the latest initialize of the credential failed at kinit
    \* ---- the registry of connectors (ConnectorManager) ----
    _connectors,    \* the configured source ids, in the dict's insertion order
    connected,      \* is_connected of each source's connector
    phase,          \* "idle", or the loop in progress: "connecting", "disconnecting"
    loop_at,        \* position of connect_all's loop in _connectors
    errors,         \* connect_all's errors list (the source ids)
    tried,          \* the sources connect_all has called connect() on
    reg,            \* outcome of the registry call, until the caller takes it
    \* ---- a Kerberos-gated HiveConnector (with the connector and credentials) ----
    _kerberos_auth, \* HiveConnector._kerberos_auth (0 is None, else a credential id)
    ncreds,         \* number of KerberosAuth objects created so far
    hpc,            \* where each coroutine is in connect / disconnect
    hcall,          \* each coroutine's connector call: what it did, how it ended
    \* ---- applications of _wrap_with_limit ----
    wrap_sql,       \* the statement given to the first application
    wrap_caps,      \* the caps given to the successive applications
    wrap_out,       \* the results of the successive applications
    \* ---- a call of the search_objects tool ----
    tool,           \* where the handler is, its input, what it has done, its result
    \* ---- concurrent connect() calls on one pooled connector ----
    cpc,            \* where each coroutine is in connect()
    ccall,          \* each coroutine's connect(): the pool it created, how it ended
    \* ---- the external commands of KerberosAuth and their environments ----
    krb5_conf,      \* the alternate realm-configuration path asked for (None if none)
    environ,        \* os.environ: the value of KRB5_CONFIG (None if unset)
    launched,       \* the commands started so far, each with the env it was given
    task_limit      \* the number of refresh tasks the run may create

connVars == <<db_type, readonly, opt_max_rows, _is_connected, handle, opened, live, res>>

credVars == <<now, _initialized, _ticket_expiry, _refresh_task, tasks, ntasks,
              pc, call, destroyed, last_failed>>

regVars == <<_connectors, connected, phase, loop_at, errors, tried, reg>>
hiveVars == <<_kerberos_auth, ncreds, hpc, hcall>>
wrapVars == <<wrap_sql, wrap_caps, wrap_out>>
toolVars == <<tool>>
raceVars == <<cpc, ccall>>
envVars == <<krb5_conf, environ, launched>>
capVars == <<task_limit>>
restVars == <<wrapVars, toolVars, raceVars, envVars, capVars>>
vars == <<connVars, credVars, regVars, hiveVars, restVars>>
otherThanConn == <<credVars, regVars, hiveVars, restVars>>
otherThanCred == <<connVars, regVars, hiveVars, restVars>>
otherThanReg == <<connVars, credVars, hiveVars, restVars>>

\* ------------------------------------------------------------------ bounds
MaxCap == 2          \* largest max_rows setting explored
MaxBackendRows == 4  \* largest number of rows a backend table holds
MaxSessions == 2     \* backend sessions a connector may create in one run
MaxTime == 1         \* minutes the clock may advance
MaxTasks == 2        \* refresh tasks a run may create
MaxTasksMany == 3    \* refresh tasks a run of SpecCredMany may create
MaxCreds == 1        \* KerberosAuth objects
MaxSources == 2      \* configured sources
ParsedExpiry == 1
NumCallers == 2      \* coroutines calling into one KerberosAuth concurrently

\* ------------------------------------------------------------- text helpers
Lowers == <<"a","b","c","d","e","f","g","h","i","j","k","l","m",
            "n","o","p","q","r","s","t","u","v","w","x","y","z">>
Uppers == <<"A","B","C","D","E","F","G","H","I","J","K","L","M",
            "N","O","P","Q","R","S","T","U","V","W","X","Y","Z">>
Digits == <<"0","1","2","3","4","5","6","7","8","9">>
Whitespace == {" ", "\t", "\n", "\r"}

UpperChar(c) ==
    IF \E i \in 1..Len(Lowers) : Lowers[i] = c
    THEN Uppers[CHOOSE i \in 1..Len(Lowers) : Lowers[i] = c]
    ELSE c

LowerChar(c) ==
    IF \E i \in 1..Len(Uppers) : Uppers[i] = c
    THEN Lowers[CHOOSE i \in 1..Len(Uppers) : Uppers[i] = c]
    ELSE c

\* str.upper()
upper(s) == [i \in 1..Len(s) |-> UpperChar(s[i])]

\* str.lower()
lower(s) == [i \in 1..Len(s) |-> LowerChar(s[i])]

RECURSIVE lstrip(_)
lstrip(s) == IF s # <<>> /\ Head(s) \in Whitespace THEN lstrip(Tail(s)) ELSE s

RECURSIVE rstrip(_)
rstrip(s) ==
    IF s # <<>> /\ s[Len(s)] \in Whitespace THEN rstrip(SubSeq(s, 1, Len(s) - 1)) ELSE s

\* str.strip()
strip(s) == rstrip(lstrip(s))

\* str.startswith(p)
startswith(s, p) == Len(s) >= Len(p) /\ SubSeq(s, 1, Len(p)) = p

\* the "in" test of one string in another
Contains(s, sub) ==
    \E i \in 1..(Len(s) - Len(sub) + 1) : SubSeq(s, i, i + Len(sub) - 1) = sub

\* decimal text of a natural number, as an f-string prints it
RECURSIVE str(_)
str(n) == IF n < 10 THEN <<Digits[n + 1]>> ELSE str(n \div 10) \o <<Digits[(n % 10) + 1]>>

IsDigit(c) == \E i \in 1..10 : Digits[i] = c
DigitValue(c) == (CHOOSE i \in 1..10 : Digits[i] = c) - 1

RECURSIVE int(_)
int(s) == IF s = <<>> THEN 0 ELSE 10 * int(SubSeq(s, 1, Len(s) - 1)) + DigitValue(s[Len(s)])

\* ------------------------------------------------------------ constants.py
kwINSERT   == <<"I","N","S","E","R","T">>
kwUPDATE   == <<"U","P","D","A","T","E">>
kwDELETE   == <<"D","E","L","E","T","E">>
kwDROP     == <<"D","R","O","P">>
kwCREATE   == <<"C","R","E","A","T","E">>
kwALTER    == <<"A","L","T","E","R">>
kwTRUNCATE == <<"T","R","U","N","C","A","T","E">>
kwGRANT    == <<"G","R","A","N","T">>
kwREVOKE   == <<"R","E","V","O","K","E">>
kwMERGE    == <<"M","E","R","G","E">>
kwUPSERT   == <<"U","P","S","E","R","T">>
kwREPLACE  == <<"R","E","P","L","A","C","E">>

WRITE_KEYWORDS ==
    <<kwINSERT, kwUPDATE, kwDELETE, kwDROP, kwCREATE, kwALTER,
      kwTRUNCATE, kwGRANT, kwREVOKE, kwMERGE, kwUPSERT, kwREPLACE>>

kwSELECT == <<"S","E","L","E","C","T">>
kwWITH   == <<"W","I","T","H">>
kwSHOW   == <<"S","H","O","W">>
txLIMIT  == <<" ","L","I","M","I","T"," ">>
txTOP    == <<" ","T","O","P"," ">>
txFETCH  == <<" ","F","E","T","C","H"," ">>


\* ------------------------------------------------------- statements tried
Capitalized(w) == <<Head(w)>> \o lower(Tail(w))

\* lead, casing and tail put around a leading word
Shaped(w) ==
    { w \o <<" ","t">>,
      <<"\n","\t">> \o lower(w),
      <<" ">> \o Capitalized(w) \o <<" ","t"," ">> }

WriteWords == {WRITE_KEYWORDS[i] : i \in 1..Len(WRITE_KEYWORDS)}

WriteStatements == UNION {Shaped(w) : w \in WriteWords}

ReadStatements ==
    UNION {Shaped(w) : w \in {kwSELECT, kwWITH, kwSHOW}}
    \cup { kwSELECT \o <<" ","a">> \o txLIMIT \o <<"1">>,
           lower(kwSELECT \o <<" ","a">> \o txLIMIT) \o <<"3">>,
           kwSELECT \o txTOP \o <<"2"," ","a">>,
           kwSELECT \o <<" ","a">> \o txFETCH \o <<"x">> }

OtherStatements ==
    { <<>>,
      <<" ">>,
      kwINSERT \o <<"E","D"," ","t">>,           \* INSERTED t
      <<"-","-","\n">> \o kwINSERT \o <<" ","t">>, \* a write behind a comment
      kwWITH \o <<" ","x"," ">> \o kwDELETE }

Statements == WriteStatements \cup ReadStatements \cup OtherStatements

\* --------------------------------------------------- connectors/base.py
\* Variant of _is_write_query that looks for a write keyword anywhere in the
\* statement.
_is_write_query_anywhere(sql) ==
    LET normalized == upper(strip(sql))
    IN  \E i \in 1..Len(WRITE_KEYWORDS) : Contains(normalized, WRITE_KEYWORDS[i])

\* Variant of _is_write_query that forgets to trim the statement.
_is_write_query_untrimmed(sql) ==
    LET normalized == upper(sql)
    IN  \E i \in 1..Len(WRITE_KEYWORDS) : startswith(normalized, WRITE_KEYWORDS[i])

_is_write_query(sql) ==
    LET normalized == upper(strip(sql))
    IN  \E i \in 1..Len(WRITE_KEYWORDS) : startswith(normalized, WRITE_KEYWORDS[i])

\* Variant of _wrap_with_limit that does not look for a bounding clause.
_wrap_with_limit_always(sql, max_rows) ==
    LET normalized == upper(strip(sql))
    IN  IF ~startswith(normalized, kwSELECT)
        THEN sql
        ELSE strip(sql) \o txLIMIT \o str(max_rows)

\* Variant of _wrap_with_limit that appends to the statement as given.
_wrap_with_limit_untrimmed(sql, max_rows) ==
    LET normalized == upper(strip(sql))
    IN  IF \/ Contains(normalized, txLIMIT)
           \/ Contains(normalized, txTOP)
           \/ Contains(normalized, txFETCH)
        THEN sql
        ELSE IF ~startswith(normalized, kwSELECT)
        THEN sql
        ELSE sql \o txLIMIT \o str(max_rows)

_wrap_with_limit(sql, max_rows) ==
    LET normalized == upper(strip(sql))
    IN  IF \/ Contains(normalized, txLIMIT)
           \/ Contains(normalized, txTOP)
           \/ Contains(normalized, txFETCH)
        THEN sql
        ELSE IF ~startswith(normalized, kwSELECT)
        THEN sql
        ELSE strip(sql) \o txLIMIT \o str(max_rows)

\* Variant of _format_rows that flags a result of exactly max_rows rows.
_format_rows_inclusive(rows, max_rows) ==
    LET truncated == Len(rows) >= max_rows
    IN  <<IF truncated THEN SubSeq(rows, 1, max_rows) ELSE rows, truncated>>

\* Variant of _format_rows that flags truncation and returns every row.
_format_rows_uncut(rows, max_rows) == <<rows, Len(rows) > max_rows>>

\* (limited_rows, truncated)
_format_rows(rows, max_rows) ==
    LET truncated == Len(rows) > max_rows
    IN  <<IF truncated THEN SubSeq(rows, 1, max_rows) ELSE rows, truncated>>

\* HiveConnector._format_rows_sync
_format_rows_sync(rows, max_rows) ==
    LET truncated == Len(rows) > max_rows
    IN  <<IF truncated THEN SubSeq(rows, 1, max_rows) ELSE rows, truncated>>

\* ------------------------------------------------------------ the backend
\* The table a statement reads: n rows, in the order the backend returns them.
TableRows(n) == [i \in 1..n |-> i]

\* The cap of a trailing "LIMIT k" clause of a statement, -1 when it has none.
LimitOf(stmt) ==
    LET u == upper(strip(stmt))
        at == { i \in 1..Len(u) :
                  /\ i + 7 <= Len(u)
                  /\ SubSeq(u, i, i + 6) = txLIMIT
                  /\ \A j \in (i + 7)..Len(u) : IsDigit(u[j]) }
    IN  IF at = {} THEN -1
        ELSE LET i == CHOOSE i \in at : \A j \in at : i >= j
             IN  int(SubSeq(u, i + 7, Len(u)))

\* What the backend returns for a statement over a table of n rows.
BackendRows(stmt, n) ==
    LET k == LimitOf(stmt)
    IN  IF k >= 0 /\ k < n THEN SubSeq(TableRows(n), 1, k) ELSE TableRows(n)

\* A backend's answer to one statement: an error, or a cursor with or without
\* a description (row-returning or not) over n rows; slow when the answer
\* takes longer than the timeout execute passes to _execute_query.
BackendAnswers ==
    [fail : {TRUE}, description : {FALSE}, n : {0}, slow : BOOLEAN]
    \cup [fail : {FALSE}, description : {TRUE}, n : 0..MaxBackendRows, slow : BOOLEAN]
    \cup [fail : {FALSE}, description : {FALSE}, n : 0..1, slow : BOOLEAN]

\* ----------------------------------------------------------- call outcomes
NoCall == [op |-> "none"]

\* QueryError raised by execute or _execute_query
QueryError(sql, why, delegated, sent, max_rows) ==
    [op |-> "execute", sql |-> sql, outcome |-> "QueryError", error |-> why,
     delegated |-> delegated, sent |-> sent, max_rows |-> max_rows,
     kind |-> "none", observed |-> <<>>, rows |-> <<>>, row_count |-> 0,
     truncated |-> FALSE, overran |-> FALSE]

\* QueryResult returned by _execute_query
QueryResult(sql, sent, max_rows, kind, observed, rows, row_count, truncated) ==
    [op |-> "execute", sql |-> sql, outcome |-> "ok", error |-> "",
     delegated |-> TRUE, sent |-> sent, max_rows |-> max_rows,
     kind |-> kind, observed |-> observed, rows |-> rows, row_count |-> row_count,
     truncated |-> truncated, overran |-> FALSE]

\* ---------------------------------------------- dialect _execute_query
Min(a, b) == IF a < b THEN a ELSE b

\* PostgresConnector._execute_query
pg_execute_query(sql, max_rows, b) ==
    IF handle = 0 THEN QueryError(sql, "Not connected", TRUE, <<>>, max_rows)
    ELSE
    LET wrapped_sql == _wrap_with_limit(sql, max_rows + 1)
        rows == IF b.description THEN BackendRows(wrapped_sql, b.n) ELSE <<>>
        kind == IF b.description THEN "rows" ELSE "norows"
        f == _format_rows(rows, max_rows)
    IN  \* conn.fetch(..., timeout=timeout) raises TimeoutError
        IF b.slow THEN QueryError(sql, "timeout", TRUE, <<wrapped_sql>>, max_rows)
        ELSE IF b.fail THEN QueryError(sql, "backend", TRUE, <<wrapped_sql>>, max_rows)
        ELSE IF rows = <<>>
        THEN QueryResult(sql, <<wrapped_sql>>, max_rows, kind, rows, <<>>, 0, FALSE)
        ELSE QueryResult(sql, <<wrapped_sql>>, max_rows, kind, rows, f[1], Len(rows), f[2])

\* MySqlConnector._execute_query
mysql_execute_query(sql, max_rows, b) ==
    IF handle = 0 THEN QueryError(sql, "Not connected", TRUE, <<>>, max_rows)
    ELSE
    LET wrapped_sql == _wrap_with_limit(sql, max_rows + 1)
        rows == BackendRows(wrapped_sql, b.n)
        f == _format_rows(rows, max_rows)
    IN  IF b.fail THEN QueryError(sql, "backend", TRUE, <<wrapped_sql>>, max_rows)
        ELSE IF b.description
        THEN QueryResult(sql, <<wrapped_sql>>, max_rows, "rows", rows, f[1], Len(rows), f[2])
        ELSE QueryResult(sql, <<wrapped_sql>>, max_rows, "affected", <<>>, <<0>>, b.n, FALSE)

\* SqliteConnector._execute_query
sqlite_execute_query(sql, max_rows, b) ==
    IF handle = 0 THEN QueryError(sql, "Not connected", TRUE, <<>>, max_rows)
    ELSE
    LET normalized == upper(strip(sql))
        is_select == startswith(normalized, kwSELECT) \/ startswith(normalized, kwWITH)
        wrapped_sql == _wrap_with_limit(sql, max_rows + 1)
        rows == IF b.description THEN BackendRows(wrapped_sql, b.n) ELSE <<>>
        f == _format_rows(rows, max_rows)
    IN  IF is_select
        THEN IF b.fail THEN QueryError(sql, "backend", TRUE, <<wrapped_sql>>, max_rows)
             ELSE IF rows = <<>>
             THEN QueryResult(sql, <<wrapped_sql>>, max_rows, "rows", rows, <<>>, 0, FALSE)
             ELSE QueryResult(sql, <<wrapped_sql>>, max_rows, "rows", rows, f[1], Len(rows), f[2])
        ELSE IF b.fail THEN QueryError(sql, "backend", TRUE, <<sql>>, max_rows)
             ELSE QueryResult(sql, <<sql>>, max_rows, "affected", <<>>, <<0>>,
                              IF b.description THEN -1 ELSE b.n, FALSE)

\* HiveConnector._execute_query and _execute_sync
hive_execute_query(sql, max_rows, b) ==
    IF handle = 0 THEN QueryError(sql, "Not connected", TRUE, <<>>, max_rows)
    ELSE
    LET cursor == BackendRows(sql, b.n)
        \* for i, row in enumerate(cursor): if i > max_rows: break
        rows == SubSeq(cursor, 1, Min(Len(cursor), max_rows + 1))
        f == _format_rows_sync(rows, max_rows)
    IN  IF b.fail THEN QueryError(sql, "backend", TRUE, <<sql>>, max_rows)
        ELSE IF b.description
        THEN QueryResult(sql, <<sql>>, max_rows, "rows", rows, f[1], Len(rows), f[2])
        ELSE QueryResult(sql, <<sql>>, max_rows, "norows", <<>>, <<>>, 0, FALSE)

\* The dialect's _execute_query; overran records that the backend call it
\* made took longer than the timeout it was given.
_execute_query(sql, max_rows, b) ==
    LET r == CASE db_type = "postgres" -> pg_execute_query(sql, max_rows, b)
               [] db_type = "mysql"    -> mysql_execute_query(sql, max_rows, b)
               [] db_type = "sqlite"   -> sqlite_execute_query(sql, max_rows, b)
               [] db_type = "hive"     -> hive_execute_query(sql, max_rows, b)
    IN  [r EXCEPT !.overran = (b.slow /\ r.sent # <<>>)]

\* Variant of execute that applies the read-only check before the connection
\* check.
execute_readonly_first(sql, o_max_rows, b) ==
    IF readonly /\ _is_write_query(sql)
    THEN QueryError(sql, "Write operations are not allowed in read-only mode",
                    FALSE, <<>>, 0)
    ELSE IF ~_is_connected
    THEN QueryError(sql, "Not connected to database", FALSE, <<>>, 0)
    ELSE LET max_rows == IF o_max_rows # 0 THEN o_max_rows ELSE opt_max_rows
         IN  _execute_query(sql, max_rows, b)

\* BaseConnector.execute; o_max_rows = 0 stands for ExecuteOptions.max_rows = None
execute(sql, o_max_rows, b) ==
    IF ~_is_connected
    THEN QueryError(sql, "Not connected to database", FALSE, <<>>, 0)
    ELSE IF readonly /\ _is_write_query(sql)
    THEN QueryError(sql, "Write operations are not allowed in read-only mode",
                    FALSE, <<>>, 0)
    ELSE LET max_rows == IF o_max_rows # 0 THEN o_max_rows ELSE opt_max_rows
         IN  _execute_query(sql, max_rows, b)

\* Variant of execute's step that gives the session up when the call fails.
ExecuteDroppingOnError(sql, o_max_rows, b) ==
    /\ res = NoCall
    /\ res' = execute(sql, o_max_rows, b)
    /\ IF execute(sql, o_max_rows, b).error = "backend"
       THEN _is_connected' = FALSE /\ handle' = 0
       ELSE UNCHANGED <<_is_connected, handle>>
    /\ UNCHANGED <<db_type, readonly, opt_max_rows, opened, live>>
    /\ UNCHANGED otherThanConn

Execute(sql, o_max_rows, b) ==
    /\ res = NoCall
    /\ res' = execute(sql, o_max_rows, b)
    /\ UNCHANGED <<db_type, readonly, opt_max_rows, _is_connected, handle, opened, live>>
    /\ UNCHANGED otherThanConn

\* ------------------------------------------- search_objects / test_connection
\* Python's None.
None == "<None>"

\* SchemaSearchOptions.object_type and .table
ObjectTypes == {None, "schema", "table", "column", "index", "procedure"}

TableNames == {None, "", "users"}

\* `not x` for an optional string
Falsy(x) == x \in {None, ""}

SearchKinds == <<"schema", "table", "column", "index", "procedure">>

\* The conditions search_objects puts on each kind of lookup.
Wanted(kind, object_type, table) ==
    CASE kind = "schema"    -> Falsy(object_type) \/ object_type = "schema"
      [] kind = "table"     -> Falsy(object_type) \/ object_type = "table"
      [] kind = "column"    -> object_type = "column" /\ ~Falsy(table)
      [] kind = "index"     -> object_type = "index"
      [] kind = "procedure" -> object_type = "procedure"

\* The kinds a dialect looks up with a backend query: SQLite answers "schema"
\* itself and has no procedures, Hive has no indexes and no procedures.
Queried(db) ==
    CASE db \in {"postgres", "mysql"} -> {"schema", "table", "column", "index", "procedure"}
      [] db = "sqlite"                -> {"table", "column", "index"}
      [] db = "hive"                  -> {"schema", "table", "column"}

\* The backend queries one search_objects call issues when none of them fails.
search_queries(db, object_type, table) ==
    LET Issued(kind) == kind \in Queried(db) /\ Wanted(kind, object_type, table)
    IN  SelectSeq(SearchKinds, Issued)

\* Outcome of search_objects: a list of objects or an exception; acquired
\* tells that a pool connection was taken, queries what was sent.
SearchResult(outcome, error, acquired, queries, objects) ==
    [outcome |-> outcome, error |-> error, acquired |-> acquired,
     queries |-> queries, objects |-> objects]

\* PostgresConnector / MySqlConnector / SqliteConnector / HiveConnector
\* .search_objects; b is the backend's answer to each query (b.n rows, or an
\* error at the first query).
search_objects(object_type, table, b) ==
    LET queries == search_queries(db_type, object_type, table)
        own == IF db_type = "sqlite" /\ Wanted("schema", object_type, table) THEN 1 ELSE 0
        answered ==
            IF queries # <<>> /\ b.fail
            THEN SearchResult(IF db_type = "hive" THEN "QueryError" ELSE "Exception",
                              "backend", db_type \in {"postgres", "mysql"},
                              <<Head(queries)>>, 0)
            ELSE SearchResult("ok", "", db_type \in {"postgres", "mysql"}, queries,
                              own + b.n * Len(queries))
    IN  IF db_type = "hive"
        THEN \* every lookup goes through self.execute
             IF queries = <<>> THEN SearchResult("ok", "", FALSE, <<>>, 0)
             ELSE IF ~_is_connected
             THEN SearchResult("QueryError", "Not connected to database", FALSE, <<>>, 0)
             ELSE IF handle = 0
             THEN SearchResult("QueryError", "Not connected", FALSE, <<>>, 0)
             ELSE answered
        ELSE IF handle = 0
             THEN SearchResult("Exception", "Not connected", FALSE, <<>>, 0)
             ELSE answered

\* The backend answers search_objects is run against.
SearchAnswers == {b \in BackendAnswers : ~b.slow /\ b.n <= 1 /\ (b.fail \/ b.description)}

Search(object_type, table, b) ==
    /\ res = NoCall
    /\ res' = [op |-> "search", object_type |-> object_type, table |-> table,
                result |-> search_objects(object_type, table, b)]
    /\ UNCHANGED <<db_type, readonly, opt_max_rows, _is_connected, handle, opened, live>>
    /\ UNCHANGED otherThanConn

\* The probe statement of test_connection.
ProbeStatement == kwSELECT \o <<" ", "1">>

\* Variant of test_connection that lets the failure of execute through.
test_connection_raising(b) ==
    [op |-> "test_connection",
     value |-> execute(ProbeStatement, 0, b).outcome = "ok",
     raised |-> execute(ProbeStatement, 0, b).outcome # "ok",
     probe |-> execute(ProbeStatement, 0, b)]

\* BaseConnector.test_connection (SqliteConnector and HiveConnector repeat it)
test_connection(b) ==
    [op |-> "test_connection",
     value |-> execute(ProbeStatement, 0, b).outcome = "ok",
     raised |-> FALSE,
     probe |-> execute(ProbeStatement, 0, b)]

TestConnection(b) ==
    /\ res = NoCall
    /\ res' = test_connection(b)
    /\ UNCHANGED <<db_type, readonly, opt_max_rows, _is_connected, handle, opened, live>>
    /\ UNCHANGED otherThanConn

\* --------------------------------------------------- connect / disconnect
ConnectResult(outcome, attempted) ==
    [op |-> "connect", outcome |-> outcome, attempted |-> attempted]

DisconnectResult(outcome) == [op |-> "disconnect", outcome |-> outcome]

\* PostgresConnector.connect and MySqlConnector.connect: create the pool, then
\* probe it with SELECT 1; either step may fail.
PoolConnect(create_ok, probe_ok) ==
    /\ db_type \in {"postgres", "mysql"}
    /\ res = NoCall
    /\ IF _is_connected
       THEN /\ res' = ConnectResult("ok", FALSE)
            /\ UNCHANGED <<_is_connected, handle, opened, live>>
       ELSE /\ opened < MaxSessions
            /\ IF ~create_ok
               THEN /\ res' = ConnectResult("ConnectionError", TRUE)
                    /\ UNCHANGED <<_is_connected, handle, opened, live>>
               ELSE /\ opened' = opened + 1
                    /\ handle' = opened + 1
                    /\ live' = live \cup {opened + 1}
                    /\ IF probe_ok
                       THEN /\ _is_connected' = TRUE
                            /\ res' = ConnectResult("ok", TRUE)
                       ELSE /\ UNCHANGED _is_connected
                            /\ res' = ConnectResult("ConnectionError", TRUE)
    /\ UNCHANGED <<db_type, readonly, opt_max_rows>>
    /\ UNCHANGED otherThanConn

\* PostgresConnector.disconnect, MySqlConnector.disconnect and
\* SqliteConnector.disconnect: close() may raise, and then nothing is reset.
PoolDisconnect(close_ok) ==
    /\ db_type \in {"postgres", "mysql", "sqlite"}
    /\ res = NoCall
    /\ IF handle = 0
       THEN /\ res' = DisconnectResult("ok")
            /\ UNCHANGED <<_is_connected, handle, live>>
       ELSE IF close_ok
       THEN /\ live' = live \ {handle}
            /\ handle' = 0
            /\ _is_connected' = FALSE
            /\ res' = DisconnectResult("ok")
       ELSE /\ res' = DisconnectResult("Error")
            /\ UNCHANGED <<_is_connected, handle, live>>
    /\ UNCHANGED <<db_type, readonly, opt_max_rows, opened>>
    /\ UNCHANGED otherThanConn

\* SqliteConnector.connect: the path is checked, then the database is opened.
SqliteConnect(open_ok) ==
    /\ db_type = "sqlite"
    /\ res = NoCall
    /\ IF _is_connected
       THEN /\ res' = ConnectResult("ok", FALSE)
            /\ UNCHANGED <<_is_connected, handle, opened, live>>
       ELSE /\ opened < MaxSessions
            /\ IF ~open_ok
               THEN /\ res' = ConnectResult("ConnectionError", TRUE)
                    /\ UNCHANGED <<_is_connected, handle, opened, live>>
               ELSE /\ opened' = opened + 1
                    /\ handle' = opened + 1
                    /\ live' = live \cup {opened + 1}
                    /\ _is_connected' = TRUE
                    /\ res' = ConnectResult("ok", TRUE)
    /\ UNCHANGED <<db_type, readonly, opt_max_rows>>
    /\ UNCHANGED otherThanConn

\* HiveConnector.connect of a source without Kerberos settings.
HivePlainConnect(open_ok) ==
    /\ db_type = "hive"
    /\ res = NoCall
    /\ IF _is_connected
       THEN /\ res' = ConnectResult("ok", FALSE)
            /\ UNCHANGED <<_is_connected, handle, opened, live>>
       ELSE /\ opened < MaxSessions
            /\ IF ~open_ok
               THEN /\ res' = ConnectResult("ConnectionError", TRUE)
                    /\ UNCHANGED <<_is_connected, handle, opened, live>>
               ELSE /\ opened' = opened + 1
                    /\ handle' = opened + 1
                    /\ live' = live \cup {opened + 1}
                    /\ _is_connected' = TRUE
                    /\ res' = ConnectResult("ok", TRUE)
    /\ UNCHANGED <<db_type, readonly, opt_max_rows>>
    /\ UNCHANGED otherThanConn

\* HiveConnector.disconnect of a source without Kerberos settings: a failing
\* close() is logged, and the finally block resets the connector either way.
HivePlainDisconnect(close_ok) ==
    /\ db_type = "hive"
    /\ res = NoCall
    /\ live' = IF handle # 0 /\ close_ok THEN live \ {handle} ELSE live
    /\ handle' = 0
    /\ _is_connected' = FALSE
    /\ res' = DisconnectResult("ok")
    /\ UNCHANGED <<db_type, readonly, opt_max_rows, opened>>
    /\ UNCHANGED otherThanConn

\* The caller takes the outcome of the call.
Return ==
    /\ res # NoCall
    /\ res' = NoCall
    /\ UNCHANGED <<db_type, readonly, opt_max_rows, _is_connected, handle, opened, live>>
    /\ UNCHANGED otherThanConn

\* The Hive coroutines while the Kerberos-gated connector is not exercised.
HiveUnused ==
    /\ _kerberos_auth = 0
    /\ ncreds = 0
    /\ hpc = <<>>
    /\ hcall = <<>>

\* The wrapping variables while _wrap_with_limit is not exercised on its own.
WrapUnused ==
    /\ wrap_sql = <<>>
    /\ wrap_caps = <<>>
    /\ wrap_out = <<>>

\* No tool call is modelled.
ToolUnused == tool = [pc |-> "idle"]

\* No concurrent connect() is modelled.
RaceUnused ==
    /\ cpc = <<>>
    /\ ccall = <<>>

\* No external command is modelled.
EnvUnused ==
    /\ krb5_conf = None
    /\ environ = None
    /\ launched = <<>>

\* The variables of the models that are not exercised.
\* The run creates at most MaxTasks refresh tasks.
CapUnused == task_limit = MaxTasks

RestUnused == ToolUnused /\ RaceUnused /\ EnvUnused /\ CapUnused

\* The registry variables while it is not exercised.
RegUnused ==
    /\ _connectors = <<>>
    /\ connected = <<>>
    /\ phase = "idle"
    /\ loop_at = 0
    /\ errors = <<>>
    /\ tried = <<>>
    /\ reg = [op |-> "none"]

\* The credential variables while the credential is not exercised.
CredUnused ==
    /\ now = 0
    /\ _initialized = <<>>
    /\ _ticket_expiry = <<>>
    /\ _refresh_task = <<>>
    /\ tasks = <<>>
    /\ ntasks = 0
    /\ pc = <<>>
    /\ call = <<>>
    /\ destroyed = <<>>
    /\ last_failed = <<>>

DbTypes == {"postgres", "mysql", "sqlite", "hive"}

InitConn ==
    /\ db_type \in DbTypes
    /\ readonly \in BOOLEAN
    /\ opt_max_rows \in 1..MaxCap
    /\ _is_connected = FALSE
    /\ handle = 0
    /\ opened = 0
    /\ live = {}
    /\ res = NoCall
    /\ CredUnused
    /\ RegUnused
    /\ HiveUnused
    /\ WrapUnused
    /\ RestUnused

NextConn ==
    \/ \E create_ok \in BOOLEAN, probe_ok \in BOOLEAN : PoolConnect(create_ok, probe_ok)
    \/ \E open_ok \in BOOLEAN : SqliteConnect(open_ok)
    \/ \E open_ok \in BOOLEAN : HivePlainConnect(open_ok)
    \/ \E close_ok \in BOOLEAN : PoolDisconnect(close_ok)
    \/ \E close_ok \in BOOLEAN : HivePlainDisconnect(close_ok)
    \/ \E sql \in Statements, o \in 0..MaxCap, b \in BackendAnswers : Execute(sql, o, b)
    \/ \E object_type \in ObjectTypes, table \in TableNames, b \in SearchAnswers :
           Search(object_type, table, b)
    \/ \E b \in BackendAnswers : TestConnection(b)
    \/ Return

SpecConn == InitConn /\ [][NextConn]_vars

\* =========================================================================
\* services/kerberos.py: KerberosAuth
\* =========================================================================
\* Time is counted in minutes.  The callers are the coroutines that call the
\* public methods; every action is the code a coroutine runs between two
\* awaits (the event loop runs it without interruption).
NoExpiry == -1

RefreshLeadMinutes == 10        \* timedelta(minutes=10) in _schedule_refresh
NoExpiryRefreshMinutes == 240   \* 4 * 60 * 60 seconds
DefaultLifetimeMinutes == 480   \* timedelta(hours=8) in _get_ticket_expiry
SafetyBufferMinutes == 5        \* the buffer the test suite states

Creds == 1..MaxCreds
Tasks == 1..MaxTasksMany
Callers == 1..NumCallers

Max(a, b) == IF a > b THEN a ELSE b

\* A refresh_loop task; `logged` is the failure its `except Exception` branch
\* has logged.
NoTask ==
    [cred |-> 0, pc |-> "none", wake |-> 0, cancel |-> FALSE, via_init |-> FALSE,
     logged |-> "none"]
NoCredCall == [op |-> "none"]

\* _get_ticket_expiry: the first timestamp of the klist output (minute
\* ParsedExpiry), or 8 hours from now when klist fails or nothing parses.
TicketExpiries == {ParsedExpiry, now + DefaultLifetimeMinutes}

\* is_valid()
is_valid(k) ==
    IF ~_initialized[k] THEN FALSE
    ELSE IF _ticket_expiry[k] = NoExpiry THEN TRUE
    ELSE now < _ticket_expiry[k]

\* What a call finds: no credential, one whose remaining validity exceeds the
\* safety buffer, or one that is expired, inside the buffer or of unknown expiry.
Found(k) ==
    IF ~_initialized[k] THEN "uninitialized"
    ELSE IF _ticket_expiry[k] # NoExpiry /\ _ticket_expiry[k] - now > SafetyBufferMinutes
    THEN "fresh"
    ELSE "stale"

\* Task.cancel(): a task that is not done gets CancelledError at its await.
Cancelled(ts, t) ==
    IF t # 0 /\ ts[t].pc # "done" THEN [ts EXCEPT ![t].cancel = TRUE] ELSE ts

\* _schedule_refresh: the tasks after cancelling self._refresh_task and creating
\* the new refresh_loop task (id ntasks + 1), given the expiry just recorded.
Scheduled(k, ts, expiry) ==
    LET refresh_in == IF expiry # NoExpiry
                      THEN Max(0, expiry - now - RefreshLeadMinutes)
                      ELSE NoExpiryRefreshMinutes
    IN  [Cancelled(ts, _refresh_task[k]) EXCEPT ![ntasks + 1] =
            [cred |-> k, pc |-> "sleep", wake |-> now + refresh_in,
             cancel |-> FALSE, via_init |-> FALSE, logged |-> "none"]]

\* A call in progress: what it found, the kinit processes it has launched.
NewCall(op, k) ==
    [op |-> op, k |-> k, calls |-> 0, found |-> Found(k),
     after_failure |-> (last_failed[k] /\ ~_initialized[k]),
     outcome |-> "pending", initialized |-> FALSE, cleared |-> FALSE, wait |-> 0]

\* The call returns or raises: the outcome and the state it leaves.
\* "keytab_not_found" and "kinit_failed" are both KerberosError.
Ended(c, outcome, initialized, expiry, task) ==
    [c EXCEPT !.outcome = outcome, !.initialized = initialized,
              !.cleared = (expiry = NoExpiry /\ task = 0)]

\* initialize() that remembers a kinit failure as final: it raises again
\* without running kinit.
CallInitializeLatched(p, k, keytab_ok) ==
    /\ pc[p] = "idle"
    /\ destroyed' = [destroyed EXCEPT ![k] = FALSE]
    /\ LET c == NewCall("initialize", k)
       IN  IF _initialized[k] \/ last_failed[k] \/ ~keytab_ok
           THEN /\ pc' = [pc EXCEPT ![p] = "returned"]
                /\ call' = [call EXCEPT ![p] =
                       Ended(c, IF _initialized[k] THEN "ok"
                                ELSE IF last_failed[k] THEN "kinit_failed"
                                ELSE "keytab_not_found",
                             _initialized[k], _ticket_expiry[k], _refresh_task[k])]
           ELSE /\ pc' = [pc EXCEPT ![p] = "init_kinit"]
                /\ call' = [call EXCEPT ![p] = [c EXCEPT !.calls = 1]]
    /\ UNCHANGED <<now, _initialized, _ticket_expiry, _refresh_task, tasks, ntasks, last_failed>>
    /\ UNCHANGED otherThanCred

\* initialize(), up to its first await: the guard, the keytab check, and the
\* launch of kinit.
CallInitialize(p, k, keytab_ok) ==
    /\ pc[p] = "idle"
    /\ destroyed' = [destroyed EXCEPT ![k] = FALSE]
    /\ LET c == NewCall("initialize", k)
       IN  IF _initialized[k]
           THEN /\ pc' = [pc EXCEPT ![p] = "returned"]
                /\ call' = [call EXCEPT ![p] =
                       Ended(c, "ok", _initialized[k], _ticket_expiry[k], _refresh_task[k])]
           ELSE IF ~keytab_ok
           THEN /\ pc' = [pc EXCEPT ![p] = "returned"]
                /\ call' = [call EXCEPT ![p] =
                       Ended(c, "keytab_not_found", _initialized[k], _ticket_expiry[k],
                             _refresh_task[k])]
           ELSE /\ pc' = [pc EXCEPT ![p] = "init_kinit"]
                /\ call' = [call EXCEPT ![p] = [c EXCEPT !.calls = 1]]
    /\ UNCHANGED <<now, _initialized, _ticket_expiry, _refresh_task, tasks, ntasks, last_failed>>
    /\ UNCHANGED otherThanCred

\* _kinit: the kinit process exits; on success klist is launched, on failure
\* KerberosError reaches the caller.
KinitDone(p, rc_ok) ==
    /\ pc[p] = "init_kinit"
    /\ LET c == call[p]
           k == c.k
       IN  IF rc_ok
           THEN /\ pc' = [pc EXCEPT ![p] = "init_klist"]
                /\ UNCHANGED <<call, last_failed>>
           ELSE /\ pc' = [pc EXCEPT ![p] = "returned"]
                /\ call' = [call EXCEPT ![p] =
                       Ended(c, "kinit_failed", _initialized[k], _ticket_expiry[k],
                             _refresh_task[k])]
                /\ last_failed' = [last_failed EXCEPT ![k] = TRUE]
    /\ UNCHANGED <<now, _initialized, _ticket_expiry, _refresh_task, tasks, ntasks, destroyed>>
    /\ UNCHANGED otherThanCred

\* _get_ticket_expiry returns; _kinit records the expiry; initialize sets
\* _initialized; _schedule_refresh replaces the refresh task; the call returns.
KlistDone(p, expiry) ==
    /\ pc[p] = "init_klist"
    /\ ntasks < task_limit
    /\ LET c == call[p]
           k == c.k
       IN  /\ _ticket_expiry' = [_ticket_expiry EXCEPT ![k] = expiry]
           /\ _initialized' = [_initialized EXCEPT ![k] = TRUE]
           /\ tasks' = Scheduled(k, tasks, expiry)
           /\ ntasks' = ntasks + 1
           /\ _refresh_task' = [_refresh_task EXCEPT ![k] = ntasks + 1]
           /\ last_failed' = [last_failed EXCEPT ![k] = FALSE]
           /\ pc' = [pc EXCEPT ![p] = "returned"]
           /\ call' = [call EXCEPT ![p] =
                  Ended(c, "ok", _initialized'[k], _ticket_expiry'[k], _refresh_task'[k])]
    /\ UNCHANGED <<now, destroyed>>
    /\ UNCHANGED otherThanCred

\* destroy(), up to its first await: cancel the refresh task and await it, or,
\* with no task (or one that is already done), launch kdestroy.
CallDestroy(p, k) ==
    /\ pc[p] = "idle"
    /\ LET c == NewCall("destroy", k)
           t == _refresh_task[k]
       IN  IF t # 0 /\ tasks[t].pc # "done"
           THEN /\ tasks' = Cancelled(tasks, t)
                /\ call' = [call EXCEPT ![p] = [c EXCEPT !.wait = t]]
                /\ pc' = [pc EXCEPT ![p] = "destroy_wait"]
                /\ UNCHANGED _refresh_task
           ELSE /\ _refresh_task' = [_refresh_task EXCEPT ![k] = 0]
                /\ call' = [call EXCEPT ![p] = c]
                /\ pc' = [pc EXCEPT ![p] = "destroy_kdestroy"]
                /\ UNCHANGED tasks
    /\ UNCHANGED <<now, _initialized, _ticket_expiry, ntasks, destroyed, last_failed>>
    /\ UNCHANGED otherThanCred

\* destroy(): the awaited task is done; self._refresh_task = None; kdestroy
\* is launched.
DestroyTaskAwaited(p) ==
    /\ pc[p] = "destroy_wait"
    /\ tasks[call[p].wait].pc = "done"
    /\ _refresh_task' = [_refresh_task EXCEPT ![call[p].k] = 0]
    /\ pc' = [pc EXCEPT ![p] = "destroy_kdestroy"]
    /\ UNCHANGED <<now, _initialized, _ticket_expiry, tasks, ntasks, call, destroyed, last_failed>>
    /\ UNCHANGED otherThanCred

\* _kdestroy: the kdestroy process exits; on success destroy() resets the
\* state, on failure it logs a warning; destroy() returns either way.
KdestroyDone(p, rc_ok) ==
    /\ pc[p] = "destroy_kdestroy"
    /\ LET c == call[p]
           k == c.k
       IN  /\ IF rc_ok
              THEN /\ _initialized' = [_initialized EXCEPT ![k] = FALSE]
                   /\ _ticket_expiry' = [_ticket_expiry EXCEPT ![k] = NoExpiry]
              ELSE UNCHANGED <<_initialized, _ticket_expiry>>
           /\ destroyed' = [destroyed EXCEPT ![k] = TRUE]
           /\ pc' = [pc EXCEPT ![p] = "returned"]
           /\ call' = [call EXCEPT ![p] =
                  Ended(c, IF rc_ok THEN "ok" ELSE "ok_kdestroy_failed",
                        _initialized'[k], _ticket_expiry'[k], _refresh_task[k])]
    /\ UNCHANGED <<now, _refresh_task, tasks, ntasks, last_failed>>
    /\ UNCHANGED otherThanCred

\* The caller takes the outcome.
CredReturn(p) ==
    /\ pc[p] = "returned"
    /\ pc' = [pc EXCEPT ![p] = "idle"]
    /\ call' = [call EXCEPT ![p] = NoCredCall]
    /\ UNCHANGED <<now, _initialized, _ticket_expiry, _refresh_task, tasks, ntasks, destroyed, last_failed>>
    /\ UNCHANGED otherThanCred

\* refresh_loop: the sleep is over and refresh() runs up to its first await:
\* kinit for an initialized credential, initialize() for an uninitialized one.
TaskWake(t, keytab_ok) ==
    /\ tasks[t].pc = "sleep"
    /\ ~tasks[t].cancel
    /\ now >= tasks[t].wake
    /\ LET k == tasks[t].cred
       IN  IF ~_initialized[k] /\ ~keytab_ok
           THEN tasks' = [tasks EXCEPT ![t].pc = "done", ![t].logged = "keytab"]
           ELSE tasks' = [tasks EXCEPT ![t].pc = "kinit",
                                       ![t].via_init = ~_initialized[k]]
    /\ UNCHANGED <<now, _initialized, _ticket_expiry, _refresh_task, ntasks, pc, call, destroyed, last_failed>>
    /\ UNCHANGED otherThanCred

\* A refresh_loop that, when kinit fails, also marks the credential
\* uninitialized.
TaskKinitDoneResetting(t, rc_ok) ==
    /\ tasks[t].pc = "kinit"
    /\ ~tasks[t].cancel
    /\ tasks' = [tasks EXCEPT ![t].pc = IF rc_ok THEN "klist" ELSE "done",
                              ![t].logged = IF rc_ok THEN @ ELSE "kinit"]
    /\ last_failed' = [last_failed EXCEPT ![tasks[t].cred] =
                          IF ~rc_ok /\ tasks[t].via_init THEN TRUE ELSE @]
    /\ _initialized' = [_initialized EXCEPT ![tasks[t].cred] = IF rc_ok THEN @ ELSE FALSE]
    /\ UNCHANGED <<now, _ticket_expiry, _refresh_task, ntasks, pc, call, destroyed>>
    /\ UNCHANGED otherThanCred

\* refresh_loop: kinit exits; a failure is logged by the loop and ends the task.
TaskKinitDone(t, rc_ok) ==
    /\ tasks[t].pc = "kinit"
    /\ ~tasks[t].cancel
    /\ tasks' = [tasks EXCEPT ![t].pc = IF rc_ok THEN "klist" ELSE "done",
                              ![t].logged = IF rc_ok THEN @ ELSE "kinit"]
    /\ last_failed' = [last_failed EXCEPT ![tasks[t].cred] =
                          IF ~rc_ok /\ tasks[t].via_init THEN TRUE ELSE @]
    /\ UNCHANGED <<now, _initialized, _ticket_expiry, _refresh_task, ntasks, pc, call, destroyed>>
    /\ UNCHANGED otherThanCred

\* refresh_loop: klist returns; the expiry is recorded and _schedule_refresh
\* creates the next task; this task ends.
TaskKlistDone(t, expiry) ==
    /\ tasks[t].pc = "klist"
    /\ ~tasks[t].cancel
    /\ ntasks < task_limit
    /\ LET k == tasks[t].cred
       IN  /\ _ticket_expiry' = [_ticket_expiry EXCEPT ![k] = expiry]
           /\ _initialized' = [_initialized EXCEPT ![k] = IF tasks[t].via_init THEN TRUE ELSE @]
           /\ last_failed' = [last_failed EXCEPT ![k] = IF tasks[t].via_init THEN FALSE ELSE @]
           /\ tasks' = [Scheduled(k, tasks, expiry) EXCEPT ![t].pc = "done"]
           /\ ntasks' = ntasks + 1
           /\ _refresh_task' = [_refresh_task EXCEPT ![k] = ntasks + 1]
    /\ UNCHANGED <<now, pc, call, destroyed>>
    /\ UNCHANGED otherThanCred

\* refresh_loop: CancelledError arrives at the await the task is suspended at.
TaskCancelled(t) ==
    /\ tasks[t].pc \in {"sleep", "kinit", "klist"}
    /\ tasks[t].cancel
    /\ tasks' = [tasks EXCEPT ![t].pc = "done"]
    /\ UNCHANGED <<now, _initialized, _ticket_expiry, _refresh_task, ntasks, pc, call, destroyed, last_failed>>
    /\ UNCHANGED otherThanCred

\* A minute passes.
Tick ==
    /\ now < MaxTime
    /\ now' = now + 1
    /\ UNCHANGED <<_initialized, _ticket_expiry, _refresh_task, tasks, ntasks, pc, call, destroyed, last_failed>>
    /\ UNCHANGED otherThanCred

\* The connector variables while the connector is not exercised.
ConnUnused ==
    /\ db_type = "hive"
    /\ readonly = FALSE
    /\ opt_max_rows = 1
    /\ _is_connected = FALSE
    /\ handle = 0
    /\ opened = 0
    /\ live = {}
    /\ res = NoCall

\* KerberosAuth.__init__ for every credential, no caller in a call.
CredFresh ==
    /\ now = 0
    /\ _initialized = [k \in Creds |-> FALSE]
    /\ _ticket_expiry = [k \in Creds |-> NoExpiry]
    /\ _refresh_task = [k \in Creds |-> 0]
    /\ tasks = [t \in Tasks |-> NoTask]
    /\ ntasks = 0
    /\ pc = [p \in Callers |-> "idle"]
    /\ call = [p \in Callers |-> NoCredCall]
    /\ destroyed = [k \in Creds |-> FALSE]
    /\ last_failed = [k \in Creds |-> FALSE]

InitCred ==
    /\ CredFresh
    /\ ConnUnused
    /\ RegUnused
    /\ HiveUnused
    /\ WrapUnused
    /\ RestUnused

NextCred ==
    \/ \E p \in Callers, k \in Creds, keytab_ok \in BOOLEAN : CallInitialize(p, k, keytab_ok)
    \/ \E p \in Callers, rc_ok \in BOOLEAN : KinitDone(p, rc_ok)
    \/ \E p \in Callers, expiry \in TicketExpiries : KlistDone(p, expiry)
    \/ \E p \in Callers, k \in Creds : CallDestroy(p, k)
    \/ \E p \in Callers : DestroyTaskAwaited(p)
    \/ \E p \in Callers, rc_ok \in BOOLEAN : KdestroyDone(p, rc_ok)
    \/ \E p \in Callers : CredReturn(p)
    \/ \E t \in Tasks, keytab_ok \in BOOLEAN : TaskWake(t, keytab_ok)
    \/ \E t \in Tasks, rc_ok \in BOOLEAN : TaskKinitDone(t, rc_ok)
    \/ \E t \in Tasks, expiry \in TicketExpiries : TaskKlistDone(t, expiry)
    \/ \E t \in Tasks : TaskCancelled(t)
    \/ Tick

SpecCred == InitCred /\ [][NextCred]_vars

\* The same credential in runs that may create MaxTasksMany refresh tasks,
\* all within one minute of the clock: the callers' initialize and destroy
\* calls and the refresh tasks interleave freely.
InitCredMany ==
    /\ CredFresh
    /\ ConnUnused
    /\ RegUnused
    /\ HiveUnused
    /\ WrapUnused
    /\ ToolUnused
    /\ RaceUnused
    /\ EnvUnused
    /\ task_limit = MaxTasksMany

NextCredMany ==
    \/ \E p \in Callers, k \in Creds, keytab_ok \in BOOLEAN : CallInitialize(p, k, keytab_ok)
    \/ \E p \in Callers, rc_ok \in BOOLEAN : KinitDone(p, rc_ok)
    \/ \E p \in Callers, expiry \in TicketExpiries : KlistDone(p, expiry)
    \/ \E p \in Callers, k \in Creds : CallDestroy(p, k)
    \/ \E p \in Callers : DestroyTaskAwaited(p)
    \/ \E p \in Callers, rc_ok \in BOOLEAN : KdestroyDone(p, rc_ok)
    \/ \E p \in Callers : CredReturn(p)
    \/ \E t \in Tasks : TaskCancelled(t)
    \/ \E t \in Tasks, keytab_ok \in BOOLEAN : TaskWake(t, keytab_ok)
    \/ \E t \in Tasks, rc_ok \in BOOLEAN : TaskKinitDone(t, rc_ok)
    \/ \E t \in Tasks, expiry \in TicketExpiries : TaskKlistDone(t, expiry)

SpecCredMany == InitCredMany /\ [][NextCredMany]_vars

\* =========================================================================
\* connectors/hive.py: HiveConnector of a source with auth_mechanism KERBEROS
\* =========================================================================
\* The coroutines of Callers call connect() and disconnect(); inside them the
\* calls of KerberosAuth.initialize() and destroy() are the credential's own
\* steps above, made by the same coroutine.
NoHiveCall == [op |-> "none"]

NewHiveCall(op) ==
    [op |-> op, k |-> 0, dk |-> 0, sess |-> 0, held |-> 0, acquired |-> FALSE,
     attempted |-> FALSE, destroy_called |-> FALSE, kdestroy_failed |-> FALSE,
     outcome |-> "pending"]

otherThanHive == <<regVars, restVars>>
connState == <<db_type, readonly, opt_max_rows, _is_connected, handle, opened, live, res>>

\* connect(), up to `await self._kerberos_auth.initialize()`: nothing to do
\* when connected, else a new KerberosAuth is created and stored.
HiveConnect(p) ==
    /\ hpc[p] = "idle"
    /\ pc[p] = "idle"
    /\ IF _is_connected
       THEN /\ hpc' = [hpc EXCEPT ![p] = "returned"]
            /\ hcall' = [hcall EXCEPT ![p] = [NewHiveCall("connect") EXCEPT !.outcome = "ok"]]
            /\ UNCHANGED <<_kerberos_auth, ncreds>>
       ELSE /\ ncreds < MaxCreds
            /\ ncreds' = ncreds + 1
            /\ _kerberos_auth' = ncreds + 1
            /\ hpc' = [hpc EXCEPT ![p] = "connect_init"]
            /\ hcall' = [hcall EXCEPT ![p] = [NewHiveCall("connect") EXCEPT !.k = ncreds + 1]]
    /\ UNCHANGED <<connState, credVars, otherThanHive>>

\* connect(): the call of initialize() on the credential just created.
HiveInitialize(p, keytab_ok) ==
    /\ hpc[p] = "connect_init"
    /\ CallInitialize(p, hcall[p].k, keytab_ok)

\* The except branch of connect(): destroy the credential the connector
\* holds, if any, then raise ConnectionError.
HiveExcept(p, c) ==
    IF _kerberos_auth # 0
    THEN /\ hpc' = [hpc EXCEPT ![p] = "connect_except"]
         /\ hcall' = [hcall EXCEPT ![p] = [c EXCEPT !.dk = _kerberos_auth]]
    ELSE /\ hpc' = [hpc EXCEPT ![p] = "returned"]
         /\ hcall' = [hcall EXCEPT ![p] = [c EXCEPT !.outcome = "ConnectionError"]]

\* connect() that goes on to the backend whatever initialize() did.
HiveInitializedUnchecked(p) ==
    /\ hpc[p] = "connect_init"
    /\ pc[p] = "returned"
    /\ pc' = [pc EXCEPT ![p] = "idle"]
    /\ call' = [call EXCEPT ![p] = NoCredCall]
    /\ hpc' = [hpc EXCEPT ![p] = "connect_open"]
    /\ hcall' = [hcall EXCEPT ![p].acquired = (call[p].outcome = "ok")]
    /\ UNCHANGED <<now, _initialized, _ticket_expiry, _refresh_task, tasks, ntasks,
                   destroyed, last_failed>>
    /\ UNCHANGED <<connState, _kerberos_auth, ncreds, otherThanHive>>

\* connect(): initialize() has returned (the backend connection is started in
\* a thread) or raised KerberosError (the except branch runs).
HiveInitialized(p) ==
    /\ hpc[p] = "connect_init"
    /\ pc[p] = "returned"
    /\ pc' = [pc EXCEPT ![p] = "idle"]
    /\ call' = [call EXCEPT ![p] = NoCredCall]
    /\ IF call[p].outcome = "ok"
       THEN /\ hpc' = [hpc EXCEPT ![p] = "connect_open"]
            /\ hcall' = [hcall EXCEPT ![p].acquired = TRUE]
       ELSE HiveExcept(p, hcall[p])
    /\ UNCHANGED <<now, _initialized, _ticket_expiry, _refresh_task, tasks, ntasks,
                   destroyed, last_failed>>
    /\ UNCHANGED <<connState, _kerberos_auth, ncreds, otherThanHive>>

\* connect(): _create_connection has returned the session (the connector is
\* connected) or raised (the except branch runs).
HiveOpened(p, open_ok) ==
    /\ hpc[p] = "connect_open"
    /\ opened < MaxSessions
    /\ IF open_ok
       THEN /\ opened' = opened + 1
            /\ handle' = opened + 1
            /\ live' = live \cup {opened + 1}
            /\ _is_connected' = TRUE
            /\ hpc' = [hpc EXCEPT ![p] = "returned"]
            /\ hcall' = [hcall EXCEPT ![p] =
                   [hcall[p] EXCEPT !.attempted = TRUE, !.outcome = "ok"]]
       ELSE /\ HiveExcept(p, [hcall[p] EXCEPT !.attempted = TRUE])
            /\ UNCHANGED <<opened, handle, live, _is_connected>>
    /\ UNCHANGED <<db_type, readonly, opt_max_rows, res>>
    /\ UNCHANGED <<credVars, _kerberos_auth, ncreds, otherThanHive>>

\* The call of destroy() in connect()'s except branch or in disconnect().
HiveDestroy(p) ==
    /\ hpc[p] \in {"connect_except", "disc_destroy"}
    /\ CallDestroy(p, hcall[p].dk)

\* connect()'s except branch: destroy() has returned; ConnectionError is raised.
HiveConnectFailed(p) ==
    /\ hpc[p] = "connect_except"
    /\ pc[p] = "returned"
    /\ pc' = [pc EXCEPT ![p] = "idle"]
    /\ call' = [call EXCEPT ![p] = NoCredCall]
    /\ hpc' = [hpc EXCEPT ![p] = "returned"]
    /\ hcall' = [hcall EXCEPT ![p].outcome = "ConnectionError"]
    /\ UNCHANGED <<now, _initialized, _ticket_expiry, _refresh_task, tasks, ntasks,
                   destroyed, last_failed>>
    /\ UNCHANGED <<connState, _kerberos_auth, ncreds, otherThanHive>>

\* The finally block of disconnect().
HiveReset ==
    /\ handle' = 0
    /\ _kerberos_auth' = 0
    /\ _is_connected' = FALSE

\* disconnect(), up to its first await: close() of the session if there is
\* one, else destroy() of the credential if there is one, else the finally
\* block at once.
HiveDisconnect(p) ==
    /\ hpc[p] = "idle"
    /\ pc[p] = "idle"
    /\ LET c == [NewHiveCall("disconnect") EXCEPT !.held = _kerberos_auth, !.sess = handle]
       IN  IF handle # 0
           THEN /\ hpc' = [hpc EXCEPT ![p] = "disc_close"]
                /\ hcall' = [hcall EXCEPT ![p] = c]
                /\ UNCHANGED <<handle, _kerberos_auth, _is_connected>>
           ELSE IF _kerberos_auth # 0
           THEN /\ hpc' = [hpc EXCEPT ![p] = "disc_destroy"]
                /\ hcall' = [hcall EXCEPT ![p] = [c EXCEPT !.dk = _kerberos_auth]]
                /\ UNCHANGED <<handle, _kerberos_auth, _is_connected>>
           ELSE /\ hpc' = [hpc EXCEPT ![p] = "returned"]
                /\ hcall' = [hcall EXCEPT ![p] = [c EXCEPT !.outcome = "ok"]]
                /\ HiveReset
    /\ UNCHANGED <<db_type, readonly, opt_max_rows, opened, live, res>>
    /\ UNCHANGED <<credVars, ncreds, otherThanHive>>

\* disconnect(): close() has returned (destroy() of the credential follows if
\* there is one) or raised (the except branch logs, destroy() is skipped, the
\* finally block runs).
HiveClosed(p, close_ok) ==
    /\ hpc[p] = "disc_close"
    /\ live' = IF close_ok THEN live \ {hcall[p].sess} ELSE live
    /\ IF close_ok /\ _kerberos_auth # 0
       THEN /\ hpc' = [hpc EXCEPT ![p] = "disc_destroy"]
            /\ hcall' = [hcall EXCEPT ![p].dk = _kerberos_auth]
            /\ UNCHANGED <<handle, _kerberos_auth, _is_connected>>
       ELSE /\ hpc' = [hpc EXCEPT ![p] = "returned"]
            /\ hcall' = [hcall EXCEPT ![p].outcome = "ok"]
            /\ HiveReset
    /\ UNCHANGED <<db_type, readonly, opt_max_rows, opened, res>>
    /\ UNCHANGED <<credVars, ncreds, otherThanHive>>

\* disconnect(): destroy() has returned (it never raises); the finally block
\* runs.
HiveDestroyed(p) ==
    /\ hpc[p] = "disc_destroy"
    /\ pc[p] = "returned"
    /\ pc' = [pc EXCEPT ![p] = "idle"]
    /\ call' = [call EXCEPT ![p] = NoCredCall]
    /\ hpc' = [hpc EXCEPT ![p] = "returned"]
    /\ hcall' = [hcall EXCEPT ![p] =
           [hcall[p] EXCEPT !.destroy_called = TRUE, !.outcome = "ok",
                            !.kdestroy_failed = (call[p].outcome = "ok_kdestroy_failed")]]
    /\ HiveReset
    /\ UNCHANGED <<now, _initialized, _ticket_expiry, _refresh_task, tasks, ntasks,
                   destroyed, last_failed>>
    /\ UNCHANGED <<db_type, readonly, opt_max_rows, opened, live, res>>
    /\ UNCHANGED <<ncreds, otherThanHive>>

\* The caller takes the outcome of connect() or disconnect().
HiveReturn(p) ==
    /\ hpc[p] = "returned"
    /\ hpc' = [hpc EXCEPT ![p] = "idle"]
    /\ hcall' = [hcall EXCEPT ![p] = NoHiveCall]
    /\ UNCHANGED <<connState, credVars, _kerberos_auth, ncreds, otherThanHive>>

\* execute() of a read statement on the Hive connector.
HiveStatements == {kwSELECT \o <<" ", "a">>}

HiveAnswers == {b \in BackendAnswers : b.n <= 1 /\ ~b.slow}

HiveExecute(sql, b) == Execute(sql, 0, b)

\* HiveConnector.__init__ of a Kerberos source; no coroutine in a call.
InitHive ==
    /\ CredFresh
    /\ db_type = "hive"
    /\ readonly = FALSE
    /\ opt_max_rows = 1
    /\ _is_connected = FALSE
    /\ handle = 0
    /\ opened = 0
    /\ live = {}
    /\ res = NoCall
    /\ _kerberos_auth = 0
    /\ ncreds = 0
    /\ hpc = [p \in Callers |-> "idle"]
    /\ hcall = [p \in Callers |-> NoHiveCall]
    /\ RegUnused
    /\ WrapUnused
    /\ RestUnused

NextHive ==
    \/ \E p \in Callers : HiveConnect(p)
    \/ \E p \in Callers, keytab_ok \in BOOLEAN : HiveInitialize(p, keytab_ok)
    \/ \E p \in Callers, rc_ok \in BOOLEAN : KinitDone(p, rc_ok)
    \/ \E p \in Callers, expiry \in TicketExpiries : KlistDone(p, expiry)
    \/ \E p \in Callers : HiveInitialized(p)
    \/ \E p \in Callers, open_ok \in BOOLEAN : HiveOpened(p, open_ok)
    \/ \E p \in Callers : HiveDestroy(p)
    \/ \E p \in Callers : DestroyTaskAwaited(p)
    \/ \E p \in Callers, rc_ok \in BOOLEAN : KdestroyDone(p, rc_ok)
    \/ \E p \in Callers : HiveConnectFailed(p)
    \/ \E p \in Callers : HiveDisconnect(p)
    \/ \E p \in Callers, close_ok \in BOOLEAN : HiveClosed(p, close_ok)
    \/ \E p \in Callers : HiveDestroyed(p)
    \/ \E p \in Callers : HiveReturn(p)
    \/ \E sql \in HiveStatements, b \in HiveAnswers : HiveExecute(sql, b)
    \/ Return
    \/ \E t \in Tasks, keytab_ok \in BOOLEAN : TaskWake(t, keytab_ok)
    \/ \E t \in Tasks, rc_ok \in BOOLEAN : TaskKinitDone(t, rc_ok)
    \/ \E t \in Tasks, expiry \in TicketExpiries : TaskKlistDone(t, expiry)
    \/ \E t \in Tasks : TaskCancelled(t)
    \/ Tick

SpecHive == InitHive /\ [][NextHive]_vars

\* =========================================================================
\* connectors/base.py: _wrap_with_limit applied to a statement, then to its
\* own result
\* =========================================================================
MaxWraps == 2

\* max_rows values passed to _wrap_with_limit (one and two digits).
WrapCaps == {1, 2, 10}

kwLIMIT == <<"L","I","M","I","T">>

WrapStatements ==
    { kwSELECT \o <<" ","a">>,
      lower(kwSELECT) \o <<" ","a">>,
      <<" ","\n">> \o kwSELECT \o <<" ","a"," ","\n">>,
      kwSELECT \o <<" ","a">> \o txLIMIT \o <<"1">>,
      lower(kwSELECT \o <<" ","a">> \o txLIMIT) \o <<"3">>,
      kwSELECT \o txTOP \o <<"2"," ","a">>,
      kwSELECT \o <<" ","a">> \o txFETCH \o <<"x">>,
      kwSELECT \o <<" ","a","\n">> \o kwLIMIT \o <<" ","5">>,   \* LIMIT on its own line
      kwSELECT \o <<" ","a"," ">> \o kwLIMIT \o <<"\t","5">>,
      kwSELECT \o <<" ">> \o lower(kwLIMIT) \o <<"s">>,           \* SELECT limits
      kwINSERT \o <<" ","t">>,
      kwWITH \o <<" ","x"," ">> \o kwSELECT \o <<" ","a">>,
      kwSHOW \o <<" ","t">>,
      <<>> }

\* One call of _wrap_with_limit: on the statement first, on the previous
\* result afterwards.
Wrap(m) ==
    /\ Len(wrap_out) < MaxWraps
    /\ LET sql == IF wrap_out = <<>> THEN wrap_sql ELSE wrap_out[Len(wrap_out)]
       IN  wrap_out' = Append(wrap_out, _wrap_with_limit(sql, m))
    /\ wrap_caps' = Append(wrap_caps, m)
    /\ UNCHANGED wrap_sql
    /\ UNCHANGED <<connVars, credVars, regVars, hiveVars, toolVars, raceVars, envVars, capVars>>

InitWrap ==
    /\ wrap_sql \in WrapStatements
    /\ wrap_caps = <<>>
    /\ wrap_out = <<>>
    /\ ConnUnused
    /\ CredUnused
    /\ RegUnused
    /\ HiveUnused
    /\ RestUnused

NextWrap == \E m \in WrapCaps : Wrap(m)

SpecWrap == InitWrap /\ [][NextWrap]_vars

\* =========================================================================
\* connectors/__init__.py: ConnectorManager
\* =========================================================================
\* A connector is named by its source id.
SourceIds == {"default", "a", "b"}

\* config.sources: a dict, so distinct ids in insertion order; it may be empty.
SourceConfigs ==
    UNION { { f \in [1..n -> SourceIds] : \A i, j \in 1..n : i # j => f[i] # f[j] }
            : n \in 0..MaxSources }

Configured(source_id) == \E i \in 1..Len(_connectors) : _connectors[i] = source_id

\* get(source_id): self._connectors.get(source_id)
get(source_id) == IF Configured(source_id) THEN source_id ELSE None

\* list_source_ids()
list_source_ids == _connectors

\* get_default() that only looks the name "default" up.
get_default_by_name == get("default")

\* get_default()
get_default ==
    IF Len(_connectors) = 1 THEN _connectors[1] ELSE get("default")

\* The outcomes of resolve: the connector, or ValueError with its message and
\* the source ids it lists (joined with ", ").
Resolved(source_id, connector) ==
    [op |-> "resolve", source_id |-> source_id, raised |-> FALSE,
     connector |-> connector, message |-> "", available |-> <<>>]

ValueError(source_id, message, available) ==
    [op |-> "resolve", source_id |-> source_id, raised |-> TRUE,
     connector |-> None, message |-> message, available |-> available]

\* resolve that hands an id it does not know to the default connector.
resolve_falling_back(source_id) ==
    IF source_id # None /\ source_id # "" /\ get(source_id) # None
    THEN Resolved(source_id, get(source_id))
    ELSE IF get_default = None
         THEN ValueError(source_id, "Multiple sources configured", list_source_ids)
         ELSE Resolved(source_id, get_default)

\* resolve(source_id): `if source_id:` is false for None and for "".
resolve(source_id) ==
    IF source_id # None /\ source_id # ""
    THEN IF get(source_id) = None
         THEN ValueError(source_id, "Unknown source", list_source_ids)
         ELSE Resolved(source_id, get(source_id))
    ELSE IF get_default = None
         THEN ValueError(source_id, "Multiple sources configured", list_source_ids)
         ELSE Resolved(source_id, get_default)

\* connect_all raising as soon as one source failed.
raises_on_any_error(errs, conns) == errs # <<>>

\* connect_all: `if errors and len(errors) == len(self._connectors)`
raises_when_all_failed(errs, conns) == errs # <<>> /\ Len(errs) = Len(conns)

RegIdle == phase = "idle" /\ reg.op = "none"

\* A tool handler calls resolve(source_id).
Resolve(source_id) ==
    /\ RegIdle
    /\ reg' = resolve(source_id)
    /\ UNCHANGED <<_connectors, connected, phase, loop_at, errors, tried>>
    /\ UNCHANGED otherThanReg

\* connect_all() is entered: errors = [] and the loop starts.
ConnectAllBegin ==
    /\ RegIdle
    /\ phase' = "connecting"
    /\ loop_at' = 1
    /\ errors' = <<>>
    /\ tried' = <<>>
    /\ UNCHANGED <<_connectors, connected, reg>>
    /\ UNCHANGED otherThanReg

\* One turn of the loop: `await connector.connect()` returns (the connector is
\* then connected) or raises (the source joins errors and the loop goes on).
ConnectOne(ok) ==
    /\ phase = "connecting"
    /\ loop_at <= Len(_connectors)
    /\ LET source_id == _connectors[loop_at]
       IN  /\ tried' = Append(tried, source_id)
           /\ IF ok
              THEN /\ connected' = [connected EXCEPT ![source_id] = TRUE]
                   /\ UNCHANGED errors
              ELSE /\ errors' = Append(errors, source_id)
                   /\ UNCHANGED connected
    /\ loop_at' = loop_at + 1
    /\ UNCHANGED <<_connectors, phase, reg>>
    /\ UNCHANGED otherThanReg

\* The loop is over: connect_all raises RuntimeError or returns.
ConnectAllEnd ==
    /\ phase = "connecting"
    /\ loop_at > Len(_connectors)
    /\ reg' = [op |-> "connect_all",
               raised |-> raises_when_all_failed(errors, _connectors),
               errors |-> errors, tried |-> tried]
    /\ phase' = "idle"
    /\ loop_at' = 0
    /\ errors' = <<>>
    /\ tried' = <<>>
    /\ UNCHANGED <<_connectors, connected>>
    /\ UNCHANGED otherThanReg

\* disconnect_all() is entered and the loop starts.
DisconnectAllBegin ==
    /\ RegIdle
    /\ phase' = "disconnecting"
    /\ loop_at' = 1
    /\ tried' = <<>>
    /\ UNCHANGED <<_connectors, connected, errors, reg>>
    /\ UNCHANGED otherThanReg

\* disconnect_all whose loop lets a connector's error out.
DisconnectOneRaising(ok) ==
    /\ phase = "disconnecting"
    /\ loop_at <= Len(_connectors)
    /\ LET source_id == _connectors[loop_at]
       IN  IF ok
           THEN /\ tried' = Append(tried, source_id)
                /\ connected' = [connected EXCEPT ![source_id] = FALSE]
                /\ loop_at' = loop_at + 1
                /\ UNCHANGED <<phase, reg>>
           ELSE /\ reg' = [op |-> "disconnect_all", raised |-> TRUE,
                           tried |-> Append(tried, source_id)]
                /\ phase' = "idle"
                /\ loop_at' = 0
                /\ tried' = <<>>
                /\ UNCHANGED connected
    /\ UNCHANGED <<_connectors, errors>>
    /\ UNCHANGED otherThanReg

\* One turn of the loop: `await connector.disconnect()` returns (the connector
\* is then disconnected) or raises (the error is logged, the connector keeps
\* its state, and the loop goes on).
DisconnectOne(ok) ==
    /\ phase = "disconnecting"
    /\ loop_at <= Len(_connectors)
    /\ LET source_id == _connectors[loop_at]
       IN  /\ tried' = Append(tried, source_id)
           /\ connected' = IF ok THEN [connected EXCEPT ![source_id] = FALSE]
                                 ELSE connected
    /\ loop_at' = loop_at + 1
    /\ UNCHANGED <<_connectors, phase, errors, reg>>
    /\ UNCHANGED otherThanReg

\* The loop is over: disconnect_all returns.
DisconnectAllEnd ==
    /\ phase = "disconnecting"
    /\ loop_at > Len(_connectors)
    /\ reg' = [op |-> "disconnect_all", raised |-> FALSE, tried |-> tried]
    /\ phase' = "idle"
    /\ loop_at' = 0
    /\ tried' = <<>>
    /\ UNCHANGED <<_connectors, connected, errors>>
    /\ UNCHANGED otherThanReg

\* The caller takes the outcome.
RegReturn ==
    /\ reg.op # "none"
    /\ reg' = [op |-> "none"]
    /\ UNCHANGED <<_connectors, connected, phase, loop_at, errors, tried>>
    /\ UNCHANGED otherThanReg

\* ConnectorManager.__init__: one connector per configured source, none connected.
InitReg ==
    /\ _connectors \in SourceConfigs
    /\ connected = [id \in {_connectors[i] : i \in 1..Len(_connectors)} |-> FALSE]
    /\ phase = "idle"
    /\ loop_at = 0
    /\ errors = <<>>
    /\ tried = <<>>
    /\ reg = [op |-> "none"]
    /\ ConnUnused
    /\ CredUnused
    /\ HiveUnused
    /\ WrapUnused
    /\ RestUnused

NextReg ==
    \/ \E source_id \in SourceIds \cup {None, "", "zz"} : Resolve(source_id)
    \/ ConnectAllBegin
    \/ \E ok \in BOOLEAN : ConnectOne(ok)
    \/ ConnectAllEnd
    \/ DisconnectAllBegin
    \/ \E ok \in BOOLEAN : DisconnectOne(ok)
    \/ DisconnectAllEnd
    \/ RegReturn

SpecReg == InitReg /\ [][NextReg]_vars

\* =========================================================================
\* services/kerberos.py: the external commands and their environments
\* =========================================================================
MaxLaunches == 3

\* kinit (_kinit), kdestroy (_kdestroy), klist (_get_ticket_expiry)
Commands == {"kinit", "kdestroy", "klist"}

\* The realm-configuration paths a source may ask for, and the values
\* KRB5_CONFIG may have in os.environ.
Krb5ConfPaths == {None, "/custom/krb5.conf"}

EnvironPaths == {None, "/etc/krb5.conf"}

\* The env argument of a subprocess: None (the child inherits os.environ), or
\* a mapping, here a copy of an environment with KRB5_CONFIG set.
NoEnv == [given |-> FALSE, copy_of |-> None, KRB5_CONFIG |-> None]

\* asyncio.create_subprocess_exec(cmd, ..., stdout=PIPE, stderr=PIPE): no env
\* argument is passed, so the child gets env=None.
create_subprocess_exec(cmd) == [cmd |-> cmd, env |-> NoEnv]

\* One of the three commands is started.
Launch(cmd) ==
    /\ Len(launched) < MaxLaunches
    /\ launched' = Append(launched, create_subprocess_exec(cmd))
    /\ UNCHANGED <<krb5_conf, environ>>
    /\ UNCHANGED <<connVars, credVars, regVars, hiveVars, wrapVars, toolVars, raceVars, capVars>>

InitEnv ==
    /\ krb5_conf \in Krb5ConfPaths
    /\ environ \in EnvironPaths
    /\ launched = <<>>
    /\ ConnUnused
    /\ CredUnused
    /\ RegUnused
    /\ HiveUnused
    /\ WrapUnused
    /\ ToolUnused
    /\ RaceUnused
    /\ CapUnused

NextEnv == \E cmd \in Commands : Launch(cmd)

SpecEnv == InitEnv /\ [][NextEnv]_vars

\* =========================================================================
\* tools/search_objects.py: the search_objects tool handler
\* =========================================================================
\* The handler runs against the manager's sources; `connected` holds each
\* connector's is_connected.  The record of a call counts what it has done.
ToolIdle == [pc |-> "idle"]

ValidationMessage == "Error: Table name is required when searching for columns"

ToolCall(pc_, source_id, object_type, table) ==
    [pc |-> pc_, source_id |-> source_id, object_type |-> object_type, table |-> table,
     connector |-> None, resolves |-> 0, connects |-> 0, searches |-> 0,
     is_error |-> FALSE, text |-> ""]

\* The handler from resolve() on, up to its first await or its return.
ToolResolved(c) ==
    LET r == resolve(c.source_id)
        d == [c EXCEPT !.resolves = 1]
    IN  IF r.raised
        THEN [d EXCEPT !.pc = "returned", !.is_error = TRUE, !.text = r.message]
        ELSE IF ~connected[r.connector]
        THEN [d EXCEPT !.pc = "connect", !.connector = r.connector]
        ELSE [d EXCEPT !.pc = "search", !.connector = r.connector]

\* The handler without its check of the arguments.
ToolSearchUnvalidated(source_id, object_type, table) ==
    /\ tool = ToolIdle
    /\ tool' = ToolResolved(ToolCall("begun", source_id, object_type, table))
    /\ UNCHANGED <<connVars, credVars, regVars, hiveVars, wrapVars, raceVars, envVars, capVars>>

\* search_objects(connector_manager, input_data) is called: the arguments are
\* checked, the connector is resolved, and the handler returns an error or
\* goes on to connect() or to the connector's search_objects().
ToolSearch(source_id, object_type, table) ==
    /\ tool = ToolIdle
    /\ LET c == ToolCall("begun", source_id, object_type, table)
       IN  IF object_type = "column" /\ Falsy(table)
           THEN tool' = [c EXCEPT !.pc = "returned", !.is_error = TRUE,
                                  !.text = ValidationMessage]
           ELSE tool' = ToolResolved(c)
    /\ UNCHANGED <<connVars, credVars, regVars, hiveVars, wrapVars, raceVars, envVars, capVars>>

\* `await connector.connect()` has returned or raised.
ToolConnected(ok) ==
    /\ tool.pc = "connect"
    /\ IF ok
       THEN /\ connected' = [connected EXCEPT ![tool.connector] = TRUE]
            /\ tool' = [tool EXCEPT !.pc = "search", !.connects = 1]
       ELSE /\ tool' = [tool EXCEPT !.pc = "returned", !.connects = 1,
                                    !.is_error = TRUE, !.text = "ConnectionError"]
            /\ UNCHANGED connected
    /\ UNCHANGED <<_connectors, phase, loop_at, errors, tried, reg>>
    /\ UNCHANGED <<connVars, credVars, hiveVars, wrapVars, raceVars, envVars, capVars>>

\* `await connector.search_objects(...)` has returned its objects (they are
\* formatted and returned) or raised.
ToolSearched(ok) ==
    /\ tool.pc = "search"
    /\ tool' = [tool EXCEPT !.pc = "returned", !.searches = 1, !.is_error = ~ok,
                            !.text = IF ok THEN "objects" ELSE "Exception"]
    /\ UNCHANGED <<connVars, credVars, regVars, hiveVars, wrapVars, raceVars, envVars, capVars>>

\* The caller takes the result.
ToolReturn ==
    /\ tool.pc = "returned"
    /\ tool' = ToolIdle
    /\ UNCHANGED <<connVars, credVars, regVars, hiveVars, wrapVars, raceVars, envVars, capVars>>

InitTool ==
    /\ _connectors \in SourceConfigs
    /\ connected = [id \in {_connectors[i] : i \in 1..Len(_connectors)} |-> FALSE]
    /\ phase = "idle"
    /\ loop_at = 0
    /\ errors = <<>>
    /\ tried = <<>>
    /\ reg = [op |-> "none"]
    /\ tool = ToolIdle
    /\ ConnUnused
    /\ CredUnused
    /\ HiveUnused
    /\ WrapUnused
    /\ RaceUnused
    /\ EnvUnused
    /\ CapUnused

NextTool ==
    \/ \E source_id \in SourceIds \cup {None, "", "zz"}, object_type \in ObjectTypes,
          table \in TableNames : ToolSearch(source_id, object_type, table)
    \/ \E ok \in BOOLEAN : ToolConnected(ok)
    \/ \E ok \in BOOLEAN : ToolSearched(ok)
    \/ ToolReturn

SpecTool == InitTool /\ [][NextTool]_vars

\* =========================================================================
\* Concurrent connect calls on one pooled connector
\* =========================================================================
\* Tool handlers run as coroutines on one event loop; each calls
\* connector.connect() when it finds the connector disconnected.  A step is
\* the code between two awaits of PostgresConnector.connect.
MaxRacers == 3

Racers == 1..MaxRacers

NoRaceCall == [pool |-> 0, outcome |-> "none"]

\* `if not connector.is_connected: await connector.connect()` up to the
\* await of create_pool: a connected connector returns at once.
RaceConnect(p) ==
    /\ cpc[p] = "idle"
    /\ IF _is_connected
       THEN /\ cpc' = [cpc EXCEPT ![p] = "returned"]
            /\ ccall' = [ccall EXCEPT ![p].outcome = "ok"]
       ELSE /\ cpc' = [cpc EXCEPT ![p] = "creating"]
            /\ UNCHANGED ccall
    /\ UNCHANGED <<connVars, credVars, regVars, hiveVars, wrapVars, toolVars, envVars, capVars>>

\* create_pool resolves: the new pool is assigned to self._pool, whatever it
\* held, and the probe starts on self._pool.
RacePoolCreated(p, create_ok) ==
    /\ cpc[p] = "creating"
    /\ IF create_ok
       THEN /\ opened' = opened + 1
            /\ handle' = opened + 1
            /\ live' = live \cup {opened + 1}
            /\ cpc' = [cpc EXCEPT ![p] = "probing"]
            /\ ccall' = [ccall EXCEPT ![p].pool = opened + 1]
       ELSE /\ cpc' = [cpc EXCEPT ![p] = "returned"]
            /\ ccall' = [ccall EXCEPT ![p].outcome = "ConnectionError"]
            /\ UNCHANGED <<handle, opened, live>>
    /\ UNCHANGED <<db_type, readonly, opt_max_rows, _is_connected, res>>
    /\ UNCHANGED <<credVars, regVars, hiveVars, wrapVars, toolVars, envVars, capVars>>

\* The SELECT 1 probe resolves: the flag is set, or ConnectionError is raised
\* with self._pool left as it is.
RaceProbed(p, probe_ok) ==
    /\ cpc[p] = "probing"
    /\ cpc' = [cpc EXCEPT ![p] = "returned"]
    /\ IF probe_ok
       THEN /\ _is_connected' = TRUE
            /\ ccall' = [ccall EXCEPT ![p].outcome = "ok"]
       ELSE /\ ccall' = [ccall EXCEPT ![p].outcome = "ConnectionError"]
            /\ UNCHANGED _is_connected
    /\ UNCHANGED <<db_type, readonly, opt_max_rows, handle, opened, live, res>>
    /\ UNCHANGED <<credVars, regVars, hiveVars, wrapVars, toolVars, envVars, capVars>>

InitRace ==
    /\ db_type \in {"postgres", "mysql"}
    /\ readonly = FALSE
    /\ opt_max_rows = 1
    /\ _is_connected = FALSE
    /\ handle = 0
    /\ opened = 0
    /\ live = {}
    /\ res = NoCall
    /\ cpc = [p \in Racers |-> "idle"]
    /\ ccall = [p \in Racers |-> NoRaceCall]
    /\ CredUnused
    /\ RegUnused
    /\ HiveUnused
    /\ WrapUnused
    /\ ToolUnused
    /\ EnvUnused
    /\ CapUnused

NextRace ==
    \/ \E p \in Racers : RaceConnect(p)
    \/ \E p \in Racers, create_ok \in BOOLEAN : RacePoolCreated(p, create_ok)
    \/ \E p \in Racers, probe_ok \in BOOLEAN : RaceProbed(p, probe_ok)

SpecRace == InitRace /\ [][NextRace]_vars

\* =========================================================================
\* Properties of the connector contract (SpecConn)
\* =========================================================================

\* The statement, trimmed and upper-cased, begins with a write keyword.
BeginsWithWriteKeyword(sql) == \E w \in WriteWords : startswith(upper(strip(sql)), w)

ReadOnlyMessage == "Write operations are not allowed in read-only mode"

\* C1: on a connected read-only connector, execute of a statement that begins
\* (after trimming and upper-casing) with a write keyword fails with the
\* read-only violation, _execute_query is not invoked and nothing is sent to
\* the backend.
C1_ReadOnlyRejectsWrites ==
    (res.op = "execute" /\ _is_connected /\ readonly /\ BeginsWithWriteKeyword(res.sql))
        => /\ res.outcome = "QueryError"
           /\ res.error = ReadOnlyMessage
           /\ ~res.delegated
           /\ res.sent = <<>>

\* A lower-case write statement behind leading whitespace was rejected.
C1_Witness ==
    /\ res.op = "execute"
    /\ _is_connected /\ readonly
    /\ res.sql = <<"\n","\t">> \o lower(kwTRUNCATE)
    /\ res.outcome = "QueryError" /\ res.error = ReadOnlyMessage

\* C6: the connected flag is true exactly when the session handle is non-null.
C6_ConnectedIffHandle == _is_connected <=> (handle # 0)

C8_AtMostCapRows ==
    (res.op = "execute" /\ res.outcome = "ok")
        => /\ Len(res.rows) <= res.max_rows
           /\ res.truncated => res.rows = SubSeq(res.observed, 1, res.max_rows)

\* An unwrapped statement (WITH ...) returned every row of the table and the
\* result was cut to the cap.
C8_Witness ==
    /\ res.op = "execute" /\ res.outcome = "ok" /\ res.kind = "rows"
    /\ res.sent = <<res.sql>>
    /\ Len(res.observed) = MaxBackendRows
    /\ res.truncated
    /\ Len(res.rows) = res.max_rows

\* C22: a dialect connector's own search_objects, called for columns without
\* a table, fails with a validation error before touching the backend; it
\* does not return an empty result.
C22_ColumnSearchNeedsTable ==
    (/\ res.op = "search"
     /\ _is_connected /\ handle \in live
     /\ res.object_type = "column" /\ Falsy(res.table))
    => /\ res.result.outcome = "ValidationError"
       /\ ~res.result.acquired
       /\ res.result.queries = <<>>

\* C24: test_connection returns true exactly when execute of the probe
\* statement succeeds, false on every failure (a disconnected connector
\* included), never raises and leaves the connected flag as it was.
C24_TestConnectionIsBooleanProbe ==
    [][(res = NoCall /\ res'.op = "test_connection")
       => /\ res'.probe.sql = ProbeStatement
          /\ res'.value <=> (res'.probe.outcome = "ok")
          /\ ~_is_connected => ~res'.value
          /\ ~res'.raised
          /\ UNCHANGED _is_connected]_vars

\* test_connection answered false on a connected connector whose backend
\* failed the probe.
C24_Witness ==
    /\ res.op = "test_connection"
    /\ _is_connected
    /\ res.probe.outcome = "QueryError"
    /\ res.probe.sent # <<>>
    /\ ~res.value
    /\ ~res.raised

\* The calls that use a connection without opening or closing it.
UsingCalls == {"execute", "search", "test_connection"}

\* C28: execute, search_objects and test_connection never change the
\* connected flag or the session handle, whether they succeed or fail; the
\* flag goes from connected to disconnected only in disconnect.
C28_OnlyDisconnectDisconnects ==
    [][/\ (res = NoCall /\ res'.op \in UsingCalls) => UNCHANGED <<_is_connected, handle>>
       /\ (_is_connected /\ ~_is_connected') => res'.op = "disconnect"]_vars

\* An execute that the backend failed left the connector connected.
C28_Witness ==
    /\ res.op = "execute"
    /\ res.outcome = "QueryError"
    /\ res.error = "backend"
    /\ _is_connected
    /\ handle \in live

\* C26: when connect has just failed with a ConnectionError the connector is
\* disconnected and holds no backend session: the flag is false, the handle
\* is null and no session the connector opened is still open.
C26_FailedConnectLeavesNothing ==
    (res.op = "connect" /\ res.outcome = "ConnectionError")
        => /\ ~_is_connected
           /\ handle = 0
           /\ live = {}

\* =========================================================================
\* Properties of the Kerberos credential (SpecCred)
\* =========================================================================
\* A refresh task that will still run: created, not done, not cancelled.
Pending(t) == tasks[t].pc \in {"sleep", "kinit", "klist"} /\ ~tasks[t].cancel

\* A caller's call of the operation has ended and the caller has not yet
\* taken the outcome.
EndedCall(p, op) == pc[p] = "returned" /\ call[p].op = op

\* C2: once destroy has returned (and no later call on the credential has
\* begun), no refresh task of the credential is pending, so none can run kinit
\* on its behalf.
C2_NoRenewalAfterDestroy ==
    \A k \in Creds : destroyed[k] =>
        \A t \in Tasks : tasks[t].cred = k => ~Pending(t)

\* C3: a call that validates the credential (keytab present) launches no kinit
\* when it finds the credential initialized with more than the safety buffer
\* left, and exactly one kinit when it finds it uninitialized, expired, inside
\* the buffer or of unknown expiry.
C3_AcquiresExactlyWhenNeeded ==
    \A p \in Callers :
        (EndedCall(p, "initialize") /\ call[p].outcome # "keytab_not_found") =>
            call[p].calls = (IF call[p].found = "fresh" THEN 0 ELSE 1)

\* C4: an initialize that begins after the previous one failed at kinit (the
\* keytab still present) launches kinit exactly once, and unless that kinit
\* fails too, returns normally with the credential initialized.
C4_RetriesAfterFailure ==
    \A p \in Callers :
        (EndedCall(p, "initialize") /\ call[p].after_failure
            /\ call[p].outcome # "keytab_not_found") =>
            /\ call[p].calls = 1
            /\ call[p].outcome \in {"ok", "kinit_failed"}
            /\ call[p].outcome = "ok" => call[p].initialized

\* C4 witness: an initialize that began after a kinit failure has returned
\* normally, having run kinit once, with the credential initialized.
C4_Witness ==
    \E p \in Callers :
        /\ EndedCall(p, "initialize")
        /\ call[p].after_failure
        /\ call[p].calls = 1
        /\ call[p].outcome = "ok"
        /\ call[p].initialized

\* C5: when destroy returns, the credential is uninitialized, its expiry is
\* cleared and it has no refresh task, whether kdestroy succeeded or failed.
C5_DestroyLeavesUninitialized ==
    \A p \in Callers :
        EndedCall(p, "destroy") => (~call[p].initialized /\ call[p].cleared)

\* C25: every initialize (keytab present) launches kinit, also when it finds
\* the credential initialized, and returning normally it leaves the
\* credential initialized.
C25_InitializeAlwaysAcquires ==
    \A p \in Callers :
        (EndedCall(p, "initialize") /\ call[p].outcome # "keytab_not_found") =>
            /\ call[p].calls = 1
            /\ call[p].outcome = "ok" => call[p].initialized

\* C29: at every moment at most one refresh task of a credential is pending
\* (created, not finished and not cancelled).
C29_AtMostOnePendingRenewal ==
    \A k \in Creds :
        Cardinality({t \in Tasks : tasks[t].cred = k /\ Pending(t)}) <= 1

\* C30: the step in which a refresh task's kinit fails ends that task with
\* the failure logged, and changes nothing else: no caller's call, not the
\* initialized flag, not the recorded expiry, and no task is created or
\* cancelled.
C30_FailedRenewalChangesNothing ==
    [][\A t \in Tasks :
          (tasks[t].pc = "kinit" /\ ~tasks[t].cancel /\ tasks'[t].pc = "done")
              => /\ tasks'[t].logged = "kinit"
                 /\ UNCHANGED <<_initialized, _ticket_expiry, _refresh_task, ntasks, pc, call>>
                 /\ \A u \in Tasks \ {t} : tasks'[u] = tasks[u]]_vars

\* The renewal of an initialized credential with a recorded expiry has failed
\* at kinit; the credential is still initialized and its expiry still recorded.
C30_Witness ==
    \E t \in Tasks :
        /\ tasks[t].pc = "done" /\ tasks[t].logged = "kinit" /\ ~tasks[t].via_init
        /\ _initialized[tasks[t].cred]
        /\ _ticket_expiry[tasks[t].cred] # NoExpiry
        /\ _refresh_task[tasks[t].cred] = t

\* =========================================================================
\* Properties of the registry (SpecReg)
\* =========================================================================
\* The source's connect() raised during the connect_all that has just ended.
FailedToConnect(source_id) == \E j \in 1..Len(reg.errors) : reg.errors[j] = source_id

ConfiguredIds == {_connectors[i] : i \in 1..Len(_connectors)}

\* C9 as stated: connect_all calls connect() on every configured source in
\* turn, raises if and only if every source failed, and the sources that
\* connected are connected when it ends.
C9_FailsIffEverySourceFailed ==
    reg.op = "connect_all" =>
        /\ reg.tried = _connectors
        /\ reg.raised <=> (\A id \in ConfiguredIds : FailedToConnect(id))
        /\ \A id \in ConfiguredIds : ~FailedToConnect(id) => connected[id]

\* C9 amended: connect_all calls connect() on every configured source in turn,
\* raises if and only if at least one source is configured and every source
\* failed, and the sources that connected are connected when it ends.
C9_FailsIffSomeAndEverySourceFailed ==
    reg.op = "connect_all" =>
        /\ reg.tried = _connectors
        /\ reg.raised <=> (ConfiguredIds # {} /\ \A id \in ConfiguredIds : FailedToConnect(id))
        /\ \A id \in ConfiguredIds : ~FailedToConnect(id) => connected[id]

\* C9 witness: the first of two sources failed, the second was still tried and
\* connected, and connect_all returned normally.
C9_Witness ==
    /\ reg.op = "connect_all"
    /\ Len(_connectors) = 2
    /\ reg.errors = <<_connectors[1]>>
    /\ reg.tried = _connectors
    /\ ~reg.raised
    /\ connected[_connectors[2]]

\* C10: resolve without a source id returns the only connector when one source
\* is configured, the connector named "default" when several are configured
\* and one has that name, and otherwise raises the "Multiple sources
\* configured" error listing every configured id.
C10_ResolveWithoutId ==
    (reg.op = "resolve" /\ reg.source_id \in {None, ""}) =>
        IF Len(_connectors) = 1
        THEN ~reg.raised /\ reg.connector = _connectors[1]
        ELSE IF Len(_connectors) > 1 /\ "default" \in ConfiguredIds
        THEN ~reg.raised /\ reg.connector = "default"
        ELSE /\ reg.raised
             /\ reg.message = "Multiple sources configured"
             /\ reg.available = _connectors

\* C10 witness: two sources, neither named "default", and resolve(None) raised
\* the error listing both.
C10_Witness ==
    /\ reg.op = "resolve"
    /\ reg.source_id = None
    /\ Len(_connectors) = 2
    /\ reg.raised
    /\ reg.available = _connectors

\* C11: resolve with an explicit source id returns the connector registered
\* under that id, and raises the "Unknown source" error exactly when no
\* connector has that id; it never returns the default connector instead.
C11_ResolveExplicitId ==
    (reg.op = "resolve" /\ reg.source_id \notin {None, ""}) =>
        IF reg.source_id \in ConfiguredIds
        THEN ~reg.raised /\ reg.connector = reg.source_id
        ELSE reg.raised /\ reg.message = "Unknown source" /\ reg.connector = None

\* C11 witness: a default connector exists (a single source is configured),
\* and resolve of an id that is not registered raised "Unknown source".
C11_Witness ==
    /\ reg.op = "resolve"
    /\ reg.source_id \notin {None, ""}
    /\ reg.source_id \notin ConfiguredIds
    /\ get_default # None
    /\ reg.raised
    /\ reg.message = "Unknown source"

\* C12: disconnect_all calls disconnect() on every connector in turn and
\* returns normally, whatever the individual disconnects did.
C12_DisconnectAllNeverRaises ==
    /\ reg.op = "disconnect_all" => (~reg.raised /\ reg.tried = _connectors)
    /\ phase = "disconnecting" => tried = SubSeq(_connectors, 1, loop_at - 1)

\* C12 witness: disconnect_all has returned after the first connector's
\* disconnect failed (it is still connected) and the second one was still
\* disconnected.
C12_Witness ==
    /\ reg.op = "disconnect_all"
    /\ ~reg.raised
    /\ Len(_connectors) = 2
    /\ reg.tried = _connectors
    /\ connected[_connectors[1]]
    /\ ~connected[_connectors[2]]

\* C16: for every dialect the timeout bounds the backend-facing portion of
\* execute: a backend call that does not complete within the timeout makes
\* execute fail with a timeout error.
C16_TimeoutBoundsBackendCall ==
    (res.op = "execute" /\ res.overran)
    => (res.outcome = "QueryError" /\ res.error = "timeout")

NotConnectedMessage == "Not connected to database"

\* The connector has no live session: it is not connected, or the session it
\* names is not open.
NoLiveSession == ~_is_connected \/ handle \notin live

\* C17: execute on a connector with no live session fails with the
\* not-connected error whatever the statement, without the read-only check
\* deciding and without the dialect implementation being invoked, and leaves
\* the connector's state as it was.
C17_NotConnectedFirst ==
    [][(res = NoCall /\ res'.op = "execute" /\ NoLiveSession)
       => /\ res'.outcome = "QueryError"
          /\ res'.error = NotConnectedMessage
          /\ ~res'.delegated
          /\ res'.sent = <<>>
          /\ UNCHANGED <<db_type, readonly, opt_max_rows, _is_connected, handle,
                         opened, live>>]_vars

\* A write statement on a read-only connector that is not connected was
\* answered with the not-connected error.
C17_Witness ==
    /\ res.op = "execute"
    /\ ~_is_connected
    /\ readonly
    /\ _is_write_query(res.sql)
    /\ res.error = NotConnectedMessage
    /\ ~res.delegated

\* The first token of a statement: the text before the first whitespace of
\* the trimmed statement, upper-cased.
FirstToken(sql) ==
    LET t == upper(strip(sql))
        gaps == {i \in 1..Len(t) : t[i] \in Whitespace}
    IN  IF gaps = {} THEN t
        ELSE SubSeq(t, 1, (CHOOSE i \in gaps : \A j \in gaps : i <= j) - 1)

\* execute went past the read-only check: the dialect implementation was
\* invoked and the outcome is its outcome.
PassedReadOnlyCheck ==
    /\ res.delegated
    /\ res.error # ReadOnlyMessage

\* C18 as stated: on a connected read-only connector, execute of a statement
\* whose first token is not a write keyword is not rejected by the read-only
\* check.
C18_FirstTokenNotWriteKeywordPasses ==
    (res.op = "execute" /\ _is_connected /\ readonly
        /\ FirstToken(res.sql) \notin WriteWords)
    => PassedReadOnlyCheck

\* C18: on a connected read-only connector, execute of a statement whose
\* trimmed, upper-cased text does not begin with a write keyword is not
\* rejected by the read-only check: it is delegated to the dialect
\* implementation and the outcome is the dialect's.
C18_NoWriteKeywordPrefixPasses ==
    (res.op = "execute" /\ _is_connected /\ readonly
        /\ ~BeginsWithWriteKeyword(res.sql))
    => PassedReadOnlyCheck

\* A statement that mentions a write keyword after its first token went to
\* the dialect on a read-only connector.
C18_Witness ==
    /\ res.op = "execute"
    /\ _is_connected /\ readonly
    /\ res.sql = kwWITH \o <<" ","x"," ">> \o kwDELETE
    /\ res.delegated
    /\ res.outcome = "ok"

\* =========================================================================
\* Properties of the Kerberos-gated Hive connector (SpecHive)
\* =========================================================================
\* A connect() call of coroutine p that had a credential to acquire.
GatedConnect(c) == c.op = "connect" /\ c.k # 0

\* In a gated connect the backend connection is being opened, or was
\* attempted, only after initialize() has returned normally; a connect whose
\* acquisition failed ends in ConnectionError with no attempt made.
C13_OpenOnlyAfterAcquired ==
    \A p \in Callers :
        GatedConnect(hcall[p]) =>
            /\ (hpc[p] = "connect_open" \/ hcall[p].attempted) => hcall[p].acquired
            /\ (hpc[p] = "returned" /\ ~hcall[p].acquired) =>
                   (hcall[p].outcome = "ConnectionError" /\ ~hcall[p].attempted)

\* No step of a gated connect whose acquisition has not succeeded touches the
\* connected flag or the session.
C13_FailedStepKeepsState ==
    \A p \in Callers :
        (/\ GatedConnect(hcall'[p])
         /\ ~hcall'[p].acquired
         /\ (hpc'[p] # hpc[p] \/ pc'[p] # pc[p]))
        => UNCHANGED <<_is_connected, handle, opened, live>>

\* C13: in the connect of a Kerberos-gated connector the credential is
\* acquired before the physical connection is attempted; if acquisition
\* fails, no physical connection is attempted, connect fails with a
\* connection failure and the connector remains disconnected.
C13_AcquireBeforeConnect ==
    []C13_OpenOnlyAfterAcquired /\ [][C13_FailedStepKeepsState]_vars

\* A gated connect has failed in acquisition and raised ConnectionError.
C13_Witness ==
    \E p \in Callers :
        /\ hpc[p] = "returned"
        /\ GatedConnect(hcall[p])
        /\ ~hcall[p].acquired
        /\ hcall[p].outcome = "ConnectionError"
        /\ ~_is_connected
        /\ opened = 0

\* C14: every disconnect of a Kerberos-gated connector that holds a credential
\* invokes that credential's destroy, whatever the outcome of closing the
\* backend session, and a failure of the destruction command does not make
\* disconnect raise.
C14_DisconnectDestroysCredential ==
    \A p \in Callers :
        (hpc[p] = "returned" /\ hcall[p].op = "disconnect" /\ hcall[p].held # 0)
        => (hcall[p].destroy_called /\ hcall[p].outcome = "ok")

\* The credential the connector holds when execute is entered.
HeldAtExecute == _kerberos_auth

\* C15: when execute on a connected Kerberos-gated connector contacts the
\* backend, the credential it holds has been re-checked, so it is neither
\* expired nor lapsing at that moment; the connected flag is left as it was.
C15_ValidWhenBackendContacted ==
    [][(/\ res = NoCall
        /\ res'.op = "execute"
        /\ _is_connected
        /\ HeldAtExecute # 0
        /\ res'.sent # <<>>)
       => (Found(HeldAtExecute)' = "fresh" /\ UNCHANGED _is_connected)]_vars

\* =========================================================================
\* Properties of row-limit wrapping (SpecWrap)
\* =========================================================================
BoundingWords == {kwLIMIT, <<"T","O","P">>, <<"F","E","T","C","H">>}

\* Where word w stands in text t as a whole word (between whitespace or the
\* ends of the text).
WordAt(t, w) ==
    {i \in 1..(Len(t) - Len(w) + 1) :
        /\ SubSeq(t, i, i + Len(w) - 1) = w
        /\ (i = 1 \/ t[i - 1] \in Whitespace)
        /\ (i + Len(w) > Len(t) \/ t[i + Len(w)] \in Whitespace)}

\* The statement contains a bounding clause: LIMIT, TOP or FETCH as a word,
\* in any casing.
HasBoundingClause(sql) == \E w \in BoundingWords : WordAt(upper(sql), w) # {}

\* The trimmed statement contains LIMIT, TOP or FETCH, in any casing, with a
\* space on each side.
HasSpacedBoundingWord(sql) ==
    \E w \in BoundingWords : Contains(upper(strip(sql)), <<" ">> \o w \o <<" ">>)

StartsWithSelect(sql) == startswith(upper(strip(sql)), kwSELECT)

\* Wrapping the result of a wrapping gives that result again.
WrapIdempotent == Len(wrap_out) = 2 => wrap_out[2] = wrap_out[1]

C20_WrapsPlainSelectOnly ==
    Len(wrap_out) >= 1 =>
        /\ ~StartsWithSelect(wrap_sql) => wrap_out[1] = wrap_sql
        /\ (StartsWithSelect(wrap_sql) /\ ~HasBoundingClause(wrap_sql)) =>
               /\ wrap_out[1] = strip(wrap_sql) \o <<" ">> \o kwLIMIT \o <<" ">>
                                    \o str(wrap_caps[1])
               /\ Cardinality(WordAt(upper(wrap_out[1]), kwLIMIT)) = 1

\* A SELECT with surrounding whitespace got a two-digit cap appended to its
\* trimmed text.
C20_Witness ==
    /\ Len(wrap_out) >= 1
    /\ wrap_sql = <<" ","\n">> \o kwSELECT \o <<" ","a"," ","\n">>
    /\ wrap_out[1] = kwSELECT \o <<" ","a"," ">> \o kwLIMIT \o <<" ","1","0">>

\* =========================================================================
\* Properties of the search_objects tool (SpecTool)
\* =========================================================================
\* C21: the search tool called for columns without a table returns the
\* validation error at once, whatever the other arguments: no source is
\* resolved, no connector is connected, no connector call is made.
C21_ColumnWithoutTableRejectedFirst ==
    [][(tool = ToolIdle /\ tool'.pc # "idle"
            /\ tool'.object_type = "column" /\ Falsy(tool'.table))
       => /\ tool'.pc = "returned"
          /\ tool'.is_error
          /\ tool'.text = ValidationMessage
          /\ tool'.resolves = 0 /\ tool'.connects = 0 /\ tool'.searches = 0
          /\ UNCHANGED regVars]_vars

\* A column search without a table, naming a source that is not configured,
\* got the validation error (not the unknown-source error).
C21_Witness ==
    /\ tool.pc = "returned"
    /\ tool.object_type = "column"
    /\ tool.table = None
    /\ tool.source_id = "zz"
    /\ tool.is_error
    /\ tool.text = ValidationMessage
    /\ tool.resolves = 0

\* =========================================================================
\* Properties of concurrent connect calls (SpecRace)
\* =========================================================================
\* C27: however the connect calls interleave, and with no call failing, the
\* connector owns at most one pool: every pool that was created and not
\* closed is the one self._pool holds.
C27_NoOrphanedSession ==
    (\A p \in Racers : ccall[p].outcome # "ConnectionError")
        => live \subseteq {handle}

\* =========================================================================
\* Properties of the external commands (SpecEnv)
\* =========================================================================
\* A copy of os.environ with KRB5_CONFIG set to the given path.
EnvWithKrb5Config(path) == [given |-> TRUE, copy_of |-> environ, KRB5_CONFIG |-> path]

\* C23: with an alternate realm-configuration path configured, each command
\* is started with a copy of the process environment in which KRB5_CONFIG is
\* that path; with none configured it is started with no environment of its
\* own.
C23_CommandsGetKrb5Config ==
    \A i \in 1..Len(launched) :
        launched[i].env = IF krb5_conf # None THEN EnvWithKrb5Config(krb5_conf) ELSE NoEnv

=============================================================================
